---- MODULE Spec2Model ----
(***************************************************************************)
(* Versioned graph storage and diff engine of planemgr.                    *)
(*                                                                         *)
(*   Spec       IacStorage (services/api/src/storage/iac.ts): the two      *)
(*              workspace files, the git index and the commit history.     *)
(*   SpecPlan   createPlan (the diff engine), applied to bounded graphs.   *)
(*   SpecChart  the bare chart repository (internal/server/chart/git.go).  *)
(***************************************************************************)
EXTENDS Integers, Sequences, FiniteSets, TLC

VARIABLES
    \* ---- IacStorage: working tree, index, object store, HEAD
    workTf,      \* working copy of planemgr.tf.json: <<>> absent, <<payload>> present
    workMeta,    \* working copy of planemgr.json:    <<>> absent, <<metadata>> present
    idxTf,       \* index (staging area) entry of planemgr.tf.json
    idxMeta,     \* index entry of planemgr.json
    commits,     \* commit objects ever stored; a commit's hash is its position
    head,        \* hash the branch designates, 0 while the repository has no commit
    lastCall,    \* the last IacStorage call: its input, what it saw and what it returned
    created,     \* versions returned by createVersion so far
    \* ---- createPlan
    planIn,      \* [current, base, hasBase]
    planOut,     \* <<>> before the call, <<plan>> after it
    \* ---- chart repository
    blobs,       \* blob objects of the store (content addressed: the content)
    trees,       \* tree objects of the store (content addressed: the entries)
    chartCommits,\* commit objects of the store; the hash is the position
    branch,      \* refs/heads/main: a commit hash, 0 when the reference does not exist
    wr,          \* per writer: the locals of its WriteChartFiles call
    seen,        \* what the last ListChartTree(ref = "") returned
    \* ---- the codec of the workspace files
    codecIn,     \* the arguments of the last encode and decode
    codecOut,    \* what they returned
    \* ---- the server: chart directories and deploy locks
    repos,       \* per chart id: the directory under the workdir, <<>> when none
    cr,          \* per creator: the locals of its CreateChartRepo call
    deployLocks, \* deployLocks.locks: the chart ids being deployed
    dq           \* per deploy request: the position of its handler, its response

vars == <<workTf, workMeta, idxTf, idxMeta, commits, head, lastCall, created,
          planIn, planOut, blobs, trees, chartCommits, branch, wr, seen,
          codecIn, codecOut, repos, cr, deployLocks, dq>>

iacVars   == <<workTf, workMeta, idxTf, idxMeta, commits, head, lastCall, created>>
planVars  == <<planIn, planOut>>
chartVars == <<blobs, trees, chartCommits, branch, wr, seen>>
codecVars == <<codecIn, codecOut>>
createVars == <<repos, cr>>
deployVars == <<deployLocks, dq>>
serverVars == <<repos, cr, deployLocks, dq>>

----------------------------------------------------------------------------
(* Generic helpers *)

Range(s) == {s[i] : i \in 1..Len(s)}

IndexOf(s, x) == IF \E i \in 1..Len(s) : s[i] = x
                 THEN CHOOSE i \in 1..Len(s) : s[i] = x /\ \A j \in 1..(i-1) : s[j] # x
                 ELSE 0

\* The sequences over S of length at most n without repeated elements.
InjSeqs(S, n) ==
    {s \in UNION {[1..k -> S] : k \in 0..n} :
        \A i, j \in 1..Len(s) : i # j => s[i] # s[j]}

----------------------------------------------------------------------------
(* JSON values.  Every value has the same shape so that any two compare:   *)
(* t is the JavaScript kind, s a string payload, n a number payload and    *)
(* items the members: of an array in order (k = ""), of an object in key   *)
(* insertion order.                                                        *)

Undef      == [t |-> "undef", s |-> "", n |-> 0, items |-> <<>>]
Null       == [t |-> "null",  s |-> "", n |-> 0, items |-> <<>>]
Str(x)     == [t |-> "str",   s |-> x,  n |-> 0, items |-> <<>>]
Num(x)     == [t |-> "num",   s |-> "", n |-> x, items |-> <<>>]
KV(key, v) == [k |-> key, val |-> v]
Arr(vs)    == [t |-> "arr", s |-> "", n |-> 0, items |-> [i \in 1..Len(vs) |-> KV("", vs[i])]]
Obj(kvs)   == [t |-> "obj", s |-> "", n |-> 0, items |-> kvs]

\* typeof
TypeOf(v) == CASE v.t = "undef" -> "undefined"
               [] v.t = "str"   -> "string"
               [] v.t = "num"   -> "number"
               [] v.t = "bool"  -> "boolean"
               [] OTHER         -> "object"

\* Object.keys(value), in insertion order
Keys(v) == [i \in 1..Len(v.items) |-> v.items[i].k]

\* value[key]
Get(v, key) == IF \E i \in 1..Len(v.items) : v.items[i].k = key
               THEN v.items[CHOOSE i \in 1..Len(v.items) : v.items[i].k = key].val
               ELSE Undef

\* The order of strings that Array.prototype.sort and localeCompare use, on
\* the strings the model draws keys and ids from.
StringOrder == <<"a", "b", "c", "e1", "e2", "edge-1", "n1", "n2", "n3",
                 "node-compute-1", "node-service-1", "provider", "replicas", "x", "y",
                 "U+00E9">>
Rank(x) == IndexOf(StringOrder, x)

\* Two strings that spell the same text: e with acute accent as the one code
\* point U+00E9, and as the letter e followed by the combining accent U+0301.
Composed   == "U+00E9"
Decomposed == "U+0065 U+0301"

\* the canonical (NFC) form of a string of the model
Canonical(x) == IF x = Decomposed THEN Composed ELSE x

\* left.localeCompare(right): negative, zero or positive; zero for
\* canonically equivalent strings, which need not be the same string
localeCompare(left, right) == Rank(Canonical(left)) - Rank(Canonical(right))

\* [...xs].sort((l, r) => l.id.localeCompare(r.id)): a stable sort by id
RECURSIVE InsertById(_, _)
InsertById(s, x) ==
    IF s = <<>> THEN <<x>>
    ELSE IF localeCompare(x.id, Head(s).id) < 0 THEN <<x>> \o s
    ELSE <<Head(s)>> \o InsertById(Tail(s), x)

RECURSIVE SortById(_)
SortById(s) ==
    IF s = <<>> THEN <<>>
    ELSE InsertById(SortById(SubSeq(s, 1, Len(s) - 1)), s[Len(s)])

\* Object.keys(value).sort()
SortedKeys(v) == SelectSeq(StringOrder, LAMBDA x : x \in Range(Keys(v)))

RECURSIVE Flatten(_)
Flatten(ss) == IF ss = <<>> THEN <<>> ELSE Head(ss) \o Flatten(Tail(ss))

\* "const x = e; return Body(x)": e is evaluated once and Body sees its value.
Bind(e, Body(_)) == CHOOSE r \in {Body(x) : x \in {e}} : TRUE

----------------------------------------------------------------------------
(* The data model (packages/domain).                                       *)
(*   node  [id, kind, label, layerId, position, config]   config: an       *)
(*         object value, or Undef when the key is absent                   *)
(*   edge  [id, kind, source, target, label]   label: Str(..) or Undef     *)
(*   graph [nodes, edges], both arrays                                     *)
(* A node's optional size is read by no function modelled here.            *)

Pos(px, py) == [x |-> px, y |-> py]

Node(i, k, l, ly, p, c) ==
    [id |-> i, kind |-> k, label |-> l, layerId |-> ly, position |-> p, config |-> c]

Edge(i, k, src, tgt, l) ==
    [id |-> i, kind |-> k, source |-> src, target |-> tgt, label |-> l]

Graph(ns, es) == [nodes |-> ns, edges |-> es]

\* Positions and configs the bounded inputs are drawn from.
P0 == Pos(120, 160)
P1 == Pos(340, 280)

ConfigAB   == Obj(<<KV("a", Num(1)), KV("b", Arr(<<Num(1), Num(2)>>))>>)
ConfigBA   == Obj(<<KV("b", Arr(<<Num(1), Num(2)>>)), KV("a", Num(1))>>)
ConfigSwap == Obj(<<KV("a", Num(1)), KV("b", Arr(<<Num(2), Num(1)>>))>>)
ConfigStr  == Obj(<<KV("a", Str("1")), KV("b", Arr(<<Num(1), Num(2)>>))>>)
ConfigNest == Obj(<<KV("a", Obj(<<KV("c", Null)>>))>>)

Ids(xs) == {xs[i].id : i \in 1..Len(xs)}

\* x ?? fallback
OrElse(v, fallback) == IF v.t \in {"undef", "null"} THEN fallback ELSE v

PosVal(p)  == Obj(<<KV("x", Num(p.x)), KV("y", Num(p.y))>>)

\* A node / an edge as the object an operation carries under "to" or "from";
\* JSON.stringify drops an undefined member.
NodeVal(nd) ==
    Obj(<<KV("id", Str(nd.id)), KV("kind", Str(nd.kind)), KV("label", Str(nd.label)),
          KV("layerId", Str(nd.layerId)), KV("position", PosVal(nd.position))>>
        \o (IF nd.config.t = "undef" THEN <<>> ELSE <<KV("config", nd.config)>>))

EdgeVal(e) ==
    Obj(<<KV("id", Str(e.id)), KV("kind", Str(e.kind)), KV("source", Str(e.source)),
          KV("target", Str(e.target))>>
        \o (IF e.label.t = "undef" THEN <<>> ELSE <<KV("label", e.label)>>))

----------------------------------------------------------------------------
(* The diff engine: services/plan (createPlan and its helpers).            *)

isObject(v) == v.t = "obj"

\* left === right: primitives by value, two arrays or objects only when they
\* are the same reference, which a structural comparison of two JSON values
\* decides the same way.
StrictEq(l, r) == /\ l.t = r.t
                  /\ l.t \in {"undef", "null", "str", "num", "bool"}
                  /\ l.s = r.s
                  /\ l.n = r.n

\* deepEqual, had it compared the members of two objects in their order.
deepEqualInOrder(left, right) == left = right

RECURSIVE deepEqual(_, _)
deepEqual(left, right) ==
    IF StrictEq(left, right) THEN TRUE
    ELSE IF TypeOf(left) # TypeOf(right) THEN FALSE
    ELSE IF left.t = "arr" /\ right.t = "arr" THEN
        IF Len(left.items) # Len(right.items) THEN FALSE
        ELSE \A i \in 1..Len(left.items) :
                 deepEqual(left.items[i].val, right.items[i].val)
    ELSE IF isObject(left) /\ isObject(right) THEN
        LET leftKeys  == SortedKeys(left)
            rightKeys == SortedKeys(right)
        IN  IF leftKeys # rightKeys THEN FALSE
            ELSE \A i \in 1..Len(leftKeys) :
                     deepEqual(Get(left, leftKeys[i]), Get(right, leftKeys[i]))
    ELSE FALSE

Change(f, a, b) == [field |-> f, from |-> a, to |-> b]

EmptyObj == Obj(<<>>)

\* diffNode, had it also compared the layout position.
diffNodeComparingPosition(current, base) ==
       (IF current.kind # base.kind
        THEN <<Change("kind", Str(base.kind), Str(current.kind))>> ELSE <<>>)
    \o (IF current.label # base.label
        THEN <<Change("label", Str(base.label), Str(current.label))>> ELSE <<>>)
    \o (IF current.layerId # base.layerId
        THEN <<Change("layerId", Str(base.layerId), Str(current.layerId))>> ELSE <<>>)
    \o (IF current.position # base.position
        THEN <<Change("position", PosVal(base.position), PosVal(current.position))>>
        ELSE <<>>)
    \o (IF ~deepEqual(OrElse(current.config, EmptyObj), OrElse(base.config, EmptyObj))
        THEN <<Change("config", OrElse(base.config, EmptyObj),
                                OrElse(current.config, EmptyObj))>> ELSE <<>>)

diffNode(current, base) ==
       (IF current.kind # base.kind
        THEN <<Change("kind", Str(base.kind), Str(current.kind))>> ELSE <<>>)
    \o (IF current.label # base.label
        THEN <<Change("label", Str(base.label), Str(current.label))>> ELSE <<>>)
    \o (IF current.layerId # base.layerId
        THEN <<Change("layerId", Str(base.layerId), Str(current.layerId))>> ELSE <<>>)
    \o (IF ~deepEqual(OrElse(current.config, EmptyObj), OrElse(base.config, EmptyObj))
        THEN <<Change("config", OrElse(base.config, EmptyObj),
                                OrElse(current.config, EmptyObj))>> ELSE <<>>)

\* diffEdge, had it compared the labels without defaulting an absent one to "".
diffEdgeRawLabel(current, base) ==
       (IF current.kind # base.kind
        THEN <<Change("kind", Str(base.kind), Str(current.kind))>> ELSE <<>>)
    \o (IF current.source # base.source
        THEN <<Change("source", Str(base.source), Str(current.source))>> ELSE <<>>)
    \o (IF current.target # base.target
        THEN <<Change("target", Str(base.target), Str(current.target))>> ELSE <<>>)
    \o (IF current.label # base.label
        THEN <<Change("label", OrElse(base.label, Str("")),
                               OrElse(current.label, Str("")))>> ELSE <<>>)

diffEdge(current, base) ==
       (IF current.kind # base.kind
        THEN <<Change("kind", Str(base.kind), Str(current.kind))>> ELSE <<>>)
    \o (IF current.source # base.source
        THEN <<Change("source", Str(base.source), Str(current.source))>> ELSE <<>>)
    \o (IF current.target # base.target
        THEN <<Change("target", Str(base.target), Str(current.target))>> ELSE <<>>)
    \o (IF OrElse(current.label, Str("")) # OrElse(base.label, Str(""))
        THEN <<Change("label", OrElse(base.label, Str("")),
                               OrElse(current.label, Str("")))>> ELSE <<>>)

\* new Map(entries).get(id): the last entry with that id, <<>> when there is none
MapGet(xs, id) ==
    IF \E i \in 1..Len(xs) : xs[i].id = id
    THEN <<xs[CHOOSE i \in 1..Len(xs) :
                 xs[i].id = id /\ \A j \in (i+1)..Len(xs) : xs[j].id # id]>>
    ELSE <<>>

\* An operation; its id is a fresh uuid and carries no information.  The
\* summary is kept as <<verb, label or kind>>.
Operation(a, t, id, sum, ch) ==
    [action |-> a, target |-> t, targetId |-> id, summary |-> sum, changes |-> ch]

NodeOperation(node, baseNodes) ==
    LET baseNode == MapGet(baseNodes, node.id)
    IN  IF baseNode = <<>>
        THEN <<Operation("create", "node", node.id, <<"Create node", node.label>>,
                         <<Change("to", Undef, NodeVal(node))>>)>>
        ELSE LET changes == diffNode(node, baseNode[1])
             IN  IF Len(changes) > 0
                 THEN <<Operation("update", "node", node.id,
                                  <<"Update node", node.label>>, changes)>>
                 ELSE <<>>

EdgeOperation(edge, baseEdges) ==
    LET baseEdge == MapGet(baseEdges, edge.id)
    IN  IF baseEdge = <<>>
        THEN <<Operation("create", "edge", edge.id, <<"Create connection", edge.kind>>,
                         <<Change("to", Undef, EdgeVal(edge))>>)>>
        ELSE LET changes == diffEdge(edge, baseEdge[1])
             IN  IF Len(changes) > 0
                 THEN <<Operation("update", "edge", edge.id,
                                  <<"Update connection", edge.kind>>, changes)>>
                 ELSE <<>>

\* NodeDeletes, had it kept every base node instead of the ones gone from current.
NodeDeletesAll(current, baseNodes) ==
    [i \in 1..Len(baseNodes) |->
        Operation("delete", "node", baseNodes[i].id, <<"Remove node", baseNodes[i].label>>,
                  <<Change("from", NodeVal(baseNodes[i]), Undef)>>)]

NodeDeletes(current, baseNodes) ==
    LET gone == SelectSeq(baseNodes, LAMBDA nd : nd.id \notin Ids(current.nodes))
    IN  [i \in 1..Len(gone) |->
            Operation("delete", "node", gone[i].id, <<"Remove node", gone[i].label>>,
                      <<Change("from", NodeVal(gone[i]), Undef)>>)]

\* EdgeDeletes, had it walked the base edges from the last to the first.
EdgeDeletesReversed(current, baseEdges) ==
    LET gone == SelectSeq(baseEdges, LAMBDA e : e.id \notin Ids(current.edges))
    IN  [i \in 1..Len(gone) |->
            Operation("delete", "edge", gone[Len(gone) + 1 - i].id,
                      <<"Remove connection", gone[Len(gone) + 1 - i].kind>>,
                      <<Change("from", EdgeVal(gone[Len(gone) + 1 - i]), Undef)>>)]

EdgeDeletes(current, baseEdges) ==
    LET gone == SelectSeq(baseEdges, LAMBDA e : e.id \notin Ids(current.edges))
    IN  [i \in 1..Len(gone) |->
            Operation("delete", "edge", gone[i].id, <<"Remove connection", gone[i].kind>>,
                      <<Change("from", EdgeVal(gone[i]), Undef)>>)]

CountAction(ops, a) == Cardinality({i \in 1..Len(ops) : ops[i].action = a})

\* createPlan(workspaceId, current, base, baseVersionId); base is <<>> for
\* null and <<graph>> otherwise.  generatedAt is the wall clock.
createPlan(current, base, baseVersionId) ==
    LET baseNodes == IF base = <<>> THEN <<>> ELSE base[1].nodes
        baseEdges == IF base = <<>> THEN <<>> ELSE base[1].edges
        operations ==
               Flatten([i \in 1..Len(current.nodes) |->
                           NodeOperation(current.nodes[i], baseNodes)])
            \o (IF base # <<>> THEN NodeDeletes(current, baseNodes) ELSE <<>>)
            \o Flatten([i \in 1..Len(current.edges) |->
                           EdgeOperation(current.edges[i], baseEdges)])
            \o (IF base # <<>> THEN EdgeDeletes(current, baseEdges) ELSE <<>>)
    IN  [baseVersionId |-> baseVersionId,
         operations    |-> operations,
         stats         |-> [adds    |-> CountAction(operations, "create"),
                            updates |-> CountAction(operations, "update"),
                            deletes |-> CountAction(operations, "delete")]]

----------------------------------------------------------------------------
(* The workspace snapshot codec: services/api/src/storage/iac.ts.          *)
(*                                                                         *)
(* File bytes are modelled by the JSON document they spell: members in the *)
(* order JSON.stringify emits them, so two files are byte-identical iff    *)
(* their documents are equal.  An absent file is <<>>, a present one <<d>>.*)

DEFAULT_POSITION == Pos(120, 160)
POSITION_OFFSET  == Pos(220, 120)
DRAFT_SUBJECT    == "Draft: workspace"
DRAFT_BODY       == "Planemgr draft commit."

NodeKinds == {"platform", "compute", "service", "network", "storage", "control",
              "data", "security"}
EdgeKinds == {"data", "control", "network"}

Layer(i, nm, c, v, o) == [id |-> i, name |-> nm, color |-> c, visible |-> v, order |-> o]

DEFAULT_LAYERS ==
    <<Layer("physical", "Physical", "#f2c879", TRUE, 1),
      Layer("infra", "Infrastructure", "#ffb454", TRUE, 2),
      Layer("control", "Control", "#7cc4ff", TRUE, 3),
      Layer("service", "Services", "#f37cc1", TRUE, 4)>>

DEFAULT_GRAPH ==
    Graph(<<Node("node-compute-1", "compute", "Compute", "infra", Pos(120, 160),
                 Obj(<<KV("provider", Str("generic"))>>)),
            Node("node-service-1", "service", "Core Service", "service", Pos(420, 260),
                 Obj(<<KV("replicas", Num(2))>>))>>,
          <<Edge("edge-1", "data", "node-compute-1", "node-service-1", Str("deploys"))>>)

\* JSON.parse(JSON.stringify(v)): an undefined member of an object is
\* dropped, an undefined element of an array becomes null.
RECURSIVE Jsonify(_)
Jsonify(v) ==
    IF v.t = "obj"
    THEN LET kept == SelectSeq(v.items, LAMBDA m : m.val.t # "undef")
         IN  Obj([i \in 1..Len(kept) |-> KV(kept[i].k, Jsonify(kept[i].val))])
    ELSE IF v.t = "arr"
    THEN [v EXCEPT !.items =
             [i \in 1..Len(v.items) |->
                 KV("", IF v.items[i].val.t = "undef" THEN Null
                        ELSE Jsonify(v.items[i].val))]]
    ELSE v

\* Object.fromEntries on [id, definition] pairs: a repeated id keeps its first
\* place and its last definition.
FromEntries(es) ==
    LET keep == SelectSeq([i \in 1..Len(es) |-> i],
                          LAMBDA i : \A j \in 1..(i - 1) : es[j].id # es[i].id)
    IN  [k \in 1..Len(keep) |-> MapGet(es, es[keep[k]].id)[1]]

\* the definition of a node, had it carried the position
NodeDefinitionWithPosition(node) ==
    [id |-> node.id, kind |-> node.kind, label |-> node.label, layerId |-> node.layerId,
     config |-> node.config, position |-> node.position]

NodeDefinition(node) ==
    [id |-> node.id, kind |-> node.kind, label |-> node.label, layerId |-> node.layerId,
     config |-> IF node.config.t = "obj" /\ Len(node.config.items) > 0
                THEN node.config ELSE Undef]

EdgeDefinition(edge) ==
    [id |-> edge.id, kind |-> edge.kind, source |-> edge.source, target |-> edge.target,
     label |-> IF edge.label.t = "str" /\ edge.label.s # "" THEN edge.label ELSE Undef]

buildTfPayload(graph, layers) ==
    LET ns == SortById(graph.nodes)
        es == SortById(graph.edges)
    IN  [nodes  |-> FromEntries([i \in 1..Len(ns) |-> NodeDefinition(ns[i])]),
         edges  |-> FromEntries([i \in 1..Len(es) |-> EdgeDefinition(es[i])]),
         layers |-> layers]

\* writeJsonFile(path, payload) for the primary file: the document written.
TfDocument(payload) ==
    [payload EXCEPT !.nodes = [i \in 1..Len(payload.nodes) |->
                                  [payload.nodes[i] EXCEPT !.config = Jsonify(@)]]]

parseLayers(value) ==
    SelectSeq(value, LAMBDA l : l.id # "" /\ l.name # "" /\ l.color # ""
                                /\ l.visible \in BOOLEAN /\ l.order \in Int)

parseNodeDefinitions(value) ==
    LET ok == SelectSeq(value, LAMBDA e : e.kind \in NodeKinds /\ e.label # ""
                                          /\ e.layerId # "")
    IN  [i \in 1..Len(ok) |->
            [ok[i] EXCEPT !.config = IF isObject(@) THEN @ ELSE Undef]]

parseEdgeDefinitions(value) ==
    LET ok == SelectSeq(value, LAMBDA e : e.kind \in EdgeKinds /\ e.source # ""
                                          /\ e.target # "")
    IN  [i \in 1..Len(ok) |->
            [ok[i] EXCEPT !.label = IF @.t = "str" THEN @ ELSE Undef]]

(* What a file holds is one of: a document that carries locals.planemgr,  *)
(* kept as [nodes, edges, layers] (every document buildTfPayload writes is  *)
(* one; the legacy planemgr_* keys are never written); another JSON value;  *)
(* text that is not JSON, kept as [text].                                   *)

Text(chars) == [text |-> chars]

IsText(content) == DOMAIN content = {"text"}

IsDefinition(raw) == "nodes" \in DOMAIN raw

\* Boolean(value), as in "if (!raw)" and "if (existing)"
Truthy(value) ==
    IF IsDefinition(value) THEN TRUE
    ELSE CASE value.t \in {"undef", "null"} -> FALSE
           [] value.t = "num" -> value.n # 0
           [] value.t = "str" -> value.s # ""
           [] OTHER -> TRUE

\* readJsonFile: [err, value]; null for a file that does not exist, and
\* JSON.parse throws a SyntaxError on text that is not JSON (the empty
\* text included)
readJsonFile(file) ==
    IF file = <<>> THEN [err |-> "", value |-> Null]
    ELSE IF IsText(file[1]) THEN [err |-> "SyntaxError", value |-> Null]
    ELSE [err |-> "", value |-> file[1]]

EmptyTfState == [nodes |-> <<>>, edges |-> <<>>, layers |-> <<>>]

\* parsePlanemgrTf: a value that is no record, or a record without
\* locals.planemgr, yields the state without nodes, edges and layers
parsePlanemgrTf(raw) ==
    IF ~IsDefinition(raw) THEN EmptyTfState
    ELSE [nodes  |-> parseNodeDefinitions(raw.nodes),
          edges  |-> parseEdgeDefinitions(raw.edges),
          layers |-> parseLayers(raw.layers)]

(* The metadata document planemgr.json: {nodes: {id: {position, drift}}}.  *)
(* It is kept as the list of its node entries in insertion order; an entry *)
(* is [id, items], items the members of the entry in insertion order, each *)
(* [k, pos, drift] with k = "position" or "drift".  A drift item is the    *)
(* list of its members [k, v] in insertion order.                          *)

NoPos == Pos(0, 0)
PositionMember(p) == [k |-> "position", pos |-> p, drift |-> <<>>]
DriftMember(d)    == [k |-> "drift", pos |-> NoPos, drift |-> d]

DriftItem(status, checkedAt) ==
    <<[k |-> "status", v |-> status]>>
    \o (IF checkedAt = "" THEN <<>> ELSE <<[k |-> "lastCheckedAt", v |-> checkedAt]>>)

HasMember(entry, key) == \E i \in 1..Len(entry.items) : entry.items[i].k = key
Member(entry, key) ==
    entry.items[CHOOSE i \in 1..Len(entry.items) : entry.items[i].k = key]

\* entry[member.k] = member: an existing key keeps its place
SetMember(entry, member) ==
    IF HasMember(entry, member.k)
    THEN Bind(CHOOSE i \in 1..Len(entry.items) : entry.items[i].k = member.k, LAMBDA i :
            [entry EXCEPT !.items = SubSeq(@, 1, i - 1) \o <<member>>
                                    \o SubSeq(@, i + 1, Len(@))])
    ELSE [entry EXCEPT !.items = Append(@, member)]

\* isRecord(nodes[id]) ? {...nodes[id]} : {}
EntryOf(nodes, id) ==
    IF MapGet(nodes, id) # <<>> THEN MapGet(nodes, id)[1] ELSE [id |-> id, items |-> <<>>]

\* nodes[entry.id] = entry
PutEntry(nodes, entry) ==
    IF MapGet(nodes, entry.id) # <<>>
    THEN Bind(CHOOSE i \in 1..Len(nodes) : nodes[i].id = entry.id, LAMBDA i :
            SubSeq(nodes, 1, i - 1) \o <<entry>> \o SubSeq(nodes, i + 1, Len(nodes)))
    ELSE Append(nodes, entry)

\* loadMetadata / parseMetadata: the node entries of the file, {} when the
\* file is absent
MetadataNodes(file) == IF file = <<>> THEN <<>> ELSE file[1]

\* driftItemSchema.safeParse(item).data: the members in schema order
ParsedDrift(d) ==
    SelectSeq(d, LAMBDA m : m.k = "status") \o SelectSeq(d, LAMBDA m : m.k = "lastCheckedAt")
    \o SelectSeq(d, LAMBDA m : m.k = "note")

\* typeof positionValue.x === "number" && typeof positionValue.y === "number":
\* a position of a document is a record of numbers, which may lack x or y
IsPosition(p) == DOMAIN p = {"x", "y"}

DriftStatuses == {"unknown", "in_sync", "drifted"}

\* driftItemSchema.safeParse(d).success: a status of the enumeration (the
\* other members of a drift item of the model are strings)
IsDriftItem(d) == \E i \in 1..Len(d) : d[i].k = "status" /\ d[i].v \in DriftStatuses

ValidPositionMember(metaEntry) ==
    HasMember(metaEntry, "position") /\ IsPosition(Member(metaEntry, "position").pos)

\* buildWorkspaceGraph, had it taken every drift member for valid
AnyDriftMember(metaEntry) == HasMember(metaEntry, "drift")

ValidDriftMember(metaEntry) ==
    HasMember(metaEntry, "drift") /\ IsDriftItem(Member(metaEntry, "drift").drift)

\* The loop of buildWorkspaceGraph over Object.entries(tfState.nodes).
\* One iteration for the definition d; acc = [meta, nodes, drift, last, updated]
BuildNode(d, acc) ==
    Bind(EntryOf(acc.meta, d.id), LAMBDA metaEntry :
    Bind(ValidPositionMember(metaEntry), LAMBDA positionIsValid :
    Bind(IF positionIsValid THEN Member(metaEntry, "position").pos
         ELSE IF acc.last # <<>>
         THEN Pos(acc.last[1].x + POSITION_OFFSET.x, acc.last[1].y + POSITION_OFFSET.y)
         ELSE DEFAULT_POSITION, LAMBDA position :
    Bind(IF positionIsValid THEN metaEntry
         ELSE SetMember(metaEntry, PositionMember(position)), LAMBDA withPosition :
    Bind(ValidDriftMember(withPosition), LAMBDA driftIsValid :
    Bind(DriftItem("unknown", ""), LAMBDA defaultDrift :
        [meta    |-> PutEntry(acc.meta,
                              IF driftIsValid THEN withPosition
                              ELSE SetMember(withPosition, DriftMember(defaultDrift))),
         nodes   |-> Append(acc.nodes,
                            Node(d.id, d.kind, d.label, d.layerId, position, d.config)),
         drift   |-> Append(acc.drift,
                            [id   |-> d.id,
                             item |-> IF driftIsValid
                                      THEN ParsedDrift(Member(withPosition, "drift").drift)
                                      ELSE defaultDrift]),
         last    |-> <<position>>,
         updated |-> acc.updated \/ ~positionIsValid \/ ~driftIsValid]))))))

RECURSIVE BuildNodes(_, _, _)
BuildNodes(defs, i, acc) ==
    IF i > Len(defs) THEN acc
    ELSE Bind(BuildNode(defs[i], acc), LAMBDA next : BuildNodes(defs, i + 1, next))

buildWorkspaceGraph(tfState, metadataNodes) ==
    Bind(BuildNodes(tfState.nodes, 1,
                    [meta |-> metadataNodes, nodes |-> <<>>, drift |-> <<>>,
                     last |-> <<>>, updated |-> FALSE]), LAMBDA built :
        [graph    |-> Graph(built.nodes,
                            [i \in 1..Len(tfState.edges) |->
                                Edge(tfState.edges[i].id, tfState.edges[i].kind,
                                     tfState.edges[i].source, tfState.edges[i].target,
                                     tfState.edges[i].label)]),
         drift    |-> built.drift,
         metadata |-> built.meta,
         updated  |-> built.updated])

----------------------------------------------------------------------------
(* IacStorage: the git working tree of the workspace.                      *)
(*                                                                         *)
(* A repository state st is [wTf, wMeta, iTf, iMeta, cs, hd, err]: the two *)
(* working files, their index entries, the commit objects, HEAD, and the   *)
(* message of the error thrown so far ("" when none).  A commit object is  *)
(* [tf, meta, parent, subject, body]; tf and meta are its tree.            *)

Repo == [wTf |-> workTf, wMeta |-> workMeta, iTf |-> idxTf, iMeta |-> idxMeta,
         cs |-> commits, hd |-> head, err |-> ""]

hasHeadCommit(st) == st.hd # 0

\* the tree of HEAD restricted to the two workspace files
HeadTree(st) ==
    IF hasHeadCommit(st) THEN [tf |-> st.cs[st.hd].tf, meta |-> st.cs[st.hd].meta]
    ELSE [tf |-> <<>>, meta |-> <<>>]

\* subject.trim() === DRAFT_SUBJECT; no subject of the model carries
\* surrounding blanks
isDraftSubject(subject) == subject = DRAFT_SUBJECT

isDraftHead(st) == hasHeadCommit(st) /\ isDraftSubject(st.cs[st.hd].subject)

\* git status --porcelain -- planemgr.tf.json planemgr.json prints a line
\* when a file differs between HEAD and the index, between the index and
\* the working tree, or is untracked.
isWorkingTreeDirty(st) ==
    \/ HeadTree(st).tf # st.iTf \/ st.iTf # st.wTf
    \/ HeadTree(st).meta # st.iMeta \/ st.iMeta # st.wMeta

\* git add planemgr.tf.json planemgr.json: fatal when a path matches neither
\* a working file nor an index entry
stageWorkspaceFiles(st) ==
    IF (st.wTf = <<>> /\ st.iTf = <<>>) \/ (st.wMeta = <<>> /\ st.iMeta = <<>>)
    THEN [st EXCEPT !.err = "git add failed"]
    ELSE [st EXCEPT !.iTf = st.wTf, !.iMeta = st.wMeta]

\* git commit [--amend] --allow-empty -m subject [-m body]
GitCommit(st, amend, subject, body) ==
    LET c == [tf |-> st.iTf, meta |-> st.iMeta,
              parent |-> IF amend THEN st.cs[st.hd].parent ELSE st.hd,
              subject |-> subject, body |-> body]
    IN  [st EXCEPT !.cs = Append(@, c), !.hd = Len(st.cs) + 1]

\* commitDraft, had it never amended.
commitDraftNeverAmending(st) ==
    Bind(stageWorkspaceFiles(st), LAMBDA staged :
        IF staged.err # "" THEN staged
        ELSE GitCommit(staged, FALSE, DRAFT_SUBJECT, DRAFT_BODY))

commitDraft(st) ==
    Bind(stageWorkspaceFiles(st), LAMBDA staged :
        IF staged.err # "" THEN staged
        ELSE GitCommit(staged, isDraftHead(staged), DRAFT_SUBJECT, DRAFT_BODY))

\* ensureDraftCommit, had it committed nothing
NoDraftCommit(st) == st

ensureDraftCommit(st) ==
    IF ~isWorkingTreeDirty(st) THEN st ELSE commitDraft(st)

\* git show -s <id>: the commit object with that hash, <<>> when none
readCommitMetadata(st, id) ==
    IF id \in 1..Len(st.cs)
    THEN <<[id |-> id, name |-> st.cs[id].subject,
            notes |-> IF st.cs[id].body = "" THEN Undef ELSE Str(st.cs[id].body)]>>
    ELSE <<>>

\* readTfAtCommit, had it decoded whatever the commit holds
readTfAtCommitNeverNull(st, id) ==
    <<parsePlanemgrTf(IF st.cs[id].tf = <<>> THEN Null ELSE st.cs[id].tf[1])>>

\* git show <id>:planemgr.tf.json, parsed; <<>> (null) when the file is not
\* in the tree, when it is empty and when JSON.parse throws
readTfAtCommit(st, id) ==
    IF st.cs[id].tf = <<>> THEN <<>>
    ELSE IF IsText(st.cs[id].tf[1]) THEN <<>>
    ELSE <<parsePlanemgrTf(st.cs[id].tf[1])>>

\* git log: HEAD and its ancestors, newest first
RECURSIVE History(_, _)
History(cs, h) == IF h = 0 THEN <<>> ELSE <<h>> \o History(cs, cs[h].parent)

LayersOrDefault(layers) == IF Len(layers) > 0 THEN layers ELSE DEFAULT_LAYERS

PlanVersionOf(st, id) ==
    Bind(readTfAtCommit(st, id)[1], LAMBDA tfState :
    Bind(LayersOrDefault(tfState.layers), LAMBDA layers :
    Bind(readCommitMetadata(st, id)[1], LAMBDA entry :
        [id |-> id, name |-> entry.name, notes |-> entry.notes,
         graph |-> buildWorkspaceGraph([tfState EXCEPT !.layers = layers], <<>>).graph,
         layers |-> layers])))

listVersions(st) ==
    LET entries == SelectSeq(History(st.cs, st.hd),
                             LAMBDA id : readTfAtCommit(st, id) # <<>>)
    IN  [i \in 1..Len(entries) |-> PlanVersionOf(st, entries[i])]

\* getVersion(id): <<>> for null
getVersion(st, id) ==
    IF readCommitMetadata(st, id) = <<>> THEN <<>>
    ELSE IF readTfAtCommit(st, id) = <<>> THEN <<>>
    ELSE <<PlanVersionOf(st, id)>>

\* ensureWorkspaceFiles: "if (existing) return", else both files are written
ensureWorkspaceFiles(st) ==
    Bind(readJsonFile(st.wTf), LAMBDA existing :
        IF existing.err # "" THEN [st EXCEPT !.err = existing.err]
        ELSE IF Truthy(existing.value) THEN st
        ELSE [st EXCEPT
                !.wTf   = <<TfDocument(buildTfPayload(DEFAULT_GRAPH, DEFAULT_LAYERS))>>,
                !.wMeta = <<[i \in 1..Len(DEFAULT_GRAPH.nodes) |->
                                [id    |-> DEFAULT_GRAPH.nodes[i].id,
                                 items |-> <<PositionMember(DEFAULT_GRAPH.nodes[i].position)>>]]>>])

\* loadTfState: [err, state]
loadTfState(file) ==
    Bind(readJsonFile(file), LAMBDA raw :
        IF raw.err # "" THEN [err |-> raw.err, state |-> EmptyTfState]
        ELSE IF ~Truthy(raw.value) THEN [err |-> "", state |-> EmptyTfState]
        ELSE [err |-> "", state |-> parsePlanemgrTf(raw.value)])

\* what a call that threw returns in place of a workspace
NoWorkspace == [graph |-> Graph(<<>>, <<>>), layers |-> <<>>, drift |-> <<>>]

\* loadWorkspace and getWorkspace: [st, ws], ws the workspace returned;
\* st.err is the error thrown, and ws is then NoWorkspace
getWorkspace(st) ==
    Bind(ensureWorkspaceFiles(st), LAMBDA ensured :
        IF ensured.err # "" THEN [st |-> ensured, ws |-> NoWorkspace]
        ELSE
    Bind(loadTfState(ensured.wTf), LAMBDA loaded :
        IF loaded.err # "" THEN [st |-> [ensured EXCEPT !.err = loaded.err],
                                 ws |-> NoWorkspace]
        ELSE
    Bind(loaded.state, LAMBDA tfState :
    Bind(LayersOrDefault(tfState.layers), LAMBDA layers :
    Bind(buildWorkspaceGraph([tfState EXCEPT !.layers = layers],
                             MetadataNodes(ensured.wMeta)), LAMBDA built :
        [st |-> IF built.updated THEN [ensured EXCEPT !.wMeta = <<built.metadata>>]
                ELSE ensured,
         ws |-> [graph |-> built.graph, layers |-> layers, drift |-> built.drift]])))))

\* what a call that ends with "return this.getWorkspace()" yields: [st, ws],
\* ws = <<>> when it threw
WorkspaceOrThrow(got) == [st |-> got.st, ws |-> IF got.st.err # "" THEN <<>> ELSE <<got.ws>>]

\* One iteration of the loop of updateWorkspace, for node
MergeNode(node, drift, metadataNodes) ==
    Bind(SetMember(EntryOf(metadataNodes, node.id), PositionMember(node.position)),
         LAMBDA metaEntry :
    Bind(MapGet(drift, node.id), LAMBDA given :
        PutEntry(metadataNodes,
                 IF given # <<>> THEN SetMember(metaEntry, DriftMember(given[1].item))
                 ELSE metaEntry)))

RECURSIVE MergeNodes(_, _, _, _)
MergeNodes(nodes, i, drift, metadataNodes) ==
    IF i > Len(nodes) THEN metadataNodes
    ELSE Bind(MergeNode(nodes[i], drift, metadataNodes), LAMBDA next :
              MergeNodes(nodes, i + 1, drift, next))

\* updateWorkspace(input), input = [graph, layers, drift]; drift is the list
\* of the [id, item] members of input.drift, <<>> when it is omitted.
\* Returns [st, ws]; ws is <<>> when the call threw.
updateWorkspace(st, input) ==
    Bind([st EXCEPT !.wTf = <<TfDocument(buildTfPayload(input.graph, input.layers))>>],
         LAMBDA written :
    Bind(MergeNodes(input.graph.nodes, 1, input.drift, MetadataNodes(written.wMeta)),
         LAMBDA nextMetadata :
    Bind([written EXCEPT !.wMeta = <<nextMetadata>>], LAMBDA saved :
    Bind(ensureDraftCommit(saved), LAMBDA committed :
        IF committed.err # "" THEN [st |-> committed, ws |-> <<>>]
        ELSE WorkspaceOrThrow(getWorkspace(committed))))))

\* createVersion(input), input = [name, notes]; notes is Str(..) or Undef.
\* Returns [st, ret]; ret is <<>> when the call threw.
createVersion(st, input) ==
    Bind(getWorkspace(st), LAMBDA got :
        IF got.st.err # "" THEN [st |-> got.st, ret |-> <<>>]
        ELSE
    Bind(stageWorkspaceFiles(got.st), LAMBDA staged :
        IF staged.err # "" THEN [st |-> staged, ret |-> <<>>]
        ELSE
    Bind(GitCommit(staged, isDraftHead(staged), input.name,
                   IF input.notes.t = "str" THEN input.notes.s ELSE ""), LAMBDA named :
    Bind(readCommitMetadata(named, named.hd)[1], LAMBDA entry :
    Bind(commitDraft(named), LAMBDA after :
        IF after.err # "" THEN [st |-> after, ret |-> <<>>]
        ELSE [st  |-> after,
              ret |-> <<[id |-> entry.id, name |-> entry.name, notes |-> entry.notes,
                         graph |-> got.ws.graph, layers |-> got.ws.layers]>>])))))

\* updateDrift(input), input = [nodeId, status], at wall-clock time now
updateDrift(st, input, now) ==
    Bind(MetadataNodes(st.wMeta), LAMBDA nodesMetadata :
    Bind(SetMember(EntryOf(nodesMetadata, input.nodeId),
                   DriftMember(DriftItem(input.status, now))), LAMBDA metaEntry :
    Bind([st EXCEPT !.wMeta = <<PutEntry(nodesMetadata, metaEntry)>>], LAMBDA saved :
        WorkspaceOrThrow(getWorkspace(saved)))))

\* the checkout, had it named planemgr.json alone
GitCheckoutMetadataOnly(st, id) ==
    [st EXCEPT !.wMeta = st.cs[id].meta, !.iMeta = st.cs[id].meta]

\* git checkout <id> -- planemgr.tf.json planemgr.json: the index entries and
\* the working files become the commit's
GitCheckoutFiles(st, id) ==
    [st EXCEPT !.wTf = st.cs[id].tf, !.iTf = st.cs[id].tf,
               !.wMeta = st.cs[id].meta, !.iMeta = st.cs[id].meta]

\* checkoutVersion(id, {commitDraft}); commitDraft is "true", "false" or
\* "absent".  The checkout fails when the commit lacks one of the files.
checkoutVersion(st, id, commitDraftOption) ==
    Bind(IF commitDraftOption # "false" THEN ensureDraftCommit(st) ELSE st,
         LAMBDA flushed :
        IF flushed.err # "" THEN [st |-> flushed, ws |-> <<>>]
        ELSE IF readCommitMetadata(flushed, id) = <<>>
        THEN [st |-> [flushed EXCEPT !.err = "version_not_found"], ws |-> <<>>]
        ELSE IF flushed.cs[id].tf = <<>> \/ flushed.cs[id].meta = <<>>
        THEN [st |-> [flushed EXCEPT !.err = "git checkout failed"], ws |-> <<>>]
        ELSE WorkspaceOrThrow(getWorkspace(GitCheckoutFiles(flushed, id))))

----------------------------------------------------------------------------
(* The chart repository (internal/server/chart/git.go): a bare git         *)
(* repository written through the object store, without a working tree.    *)
(*                                                                         *)
(* A path is [abs, segs]: whether it starts with "/", and its elements     *)
(* between slashes; "" is [FALSE, <<>>].  Objects are content addressed: a *)
(* blob's hash is its content, a tree's hash is the set of its files       *)
(* [path, blob], the paths relative to the tree.  The tree without entries *)
(* is {}.                                                                  *)

Path(abs, segs) == [abs |-> abs, segs |-> segs]

\* path.Clean
RECURSIVE CleanSegs(_, _, _)
CleanSegs(segs, rooted, out) ==
    IF segs = <<>> THEN out
    ELSE CleanSegs(Tail(segs), rooted,
            IF Head(segs) \in {"", "."} THEN out
            ELSE IF Head(segs) = ".."
                 THEN IF out # <<>> /\ out[Len(out)] # ".." THEN SubSeq(out, 1, Len(out) - 1)
                      ELSE IF rooted THEN out
                      ELSE Append(out, "..")
                 ELSE Append(out, Head(segs)))

PathClean(p) == Path(p.abs, CleanSegs(p.segs, p.abs, <<>>))

\* cleanChartPath: [err, parts], parts = strings.Split(cleanPath, "/")
cleanChartPath(filePath) ==
    IF filePath = Path(FALSE, <<>>) THEN [err |-> "ErrInvalidPath", parts |-> <<>>]
    ELSE IF filePath.abs THEN [err |-> "ErrInvalidPath", parts |-> <<>>]
    ELSE Bind(PathClean(filePath).segs, LAMBDA cleanPath :
            IF cleanPath = <<>> \/ cleanPath[1] = ".."
            THEN [err |-> "ErrInvalidPath", parts |-> <<>>]
            ELSE [err |-> "", parts |-> cleanPath])

File(path, blob) == [path |-> path, blob |-> blob]

\* writeTree, had it kept no entry of the tree it rewrites
NoOtherEntries(tree, name) == {}

\* the entries of tree other than name (the loop of writeTree)
OtherEntries(tree, name) == {f \in tree : f.path[1] # name}

\* writeTree, had it descended into an empty tree
EmptyChildTree(tree, name) == {}

\* the tree object the directory entry name of tree designates
ChildTree(tree, name) ==
    {File(Tail(f.path), f.blob) : f \in {g \in tree : g.path[1] = name /\ Len(g.path) > 1}}

\* writeTree, had it taken no entry for a directory
NeverDir(tree, name) == FALSE

\* existing != nil && existing.Mode == filemode.Dir
IsDir(tree, name) == \E f \in tree : f.path[1] = name /\ Len(f.path) > 1

\* existing != nil && existing.Mode != filemode.Dir
IsRegular(tree, name) == \E f \in tree : f.path = <<name>>

Under(name, tree) == {File(<<name>> \o f.path, f.blob) : f \in tree}

\* writeTree: [err, hash, stored], stored the tree objects it put in the store
RECURSIVE writeTree(_, _, _)
writeTree(tree, parts, blobHash) ==
    IF Len(parts) = 0 THEN [err |-> "ErrInvalidPath", hash |-> {}, stored |-> {}]
    ELSE
    Bind(parts[1], LAMBDA name :
    Bind(OtherEntries(tree, name), LAMBDA entries :
        IF Len(parts) = 1
        THEN IF IsDir(tree, name)
             THEN [err |-> "ErrPathIsDirectory", hash |-> {}, stored |-> {}]
             ELSE Bind(entries \cup {File(<<name>>, blobHash)}, LAMBDA newTree :
                      [err |-> "", hash |-> newTree, stored |-> {newTree}])
        ELSE IF IsRegular(tree, name)
             THEN [err |-> "ErrPathIsDirectory", hash |-> {}, stored |-> {}]
             ELSE Bind(writeTree(ChildTree(tree, name), Tail(parts), blobHash), LAMBDA child :
                      IF child.err # "" THEN child
                      ELSE Bind(entries \cup Under(name, child.hash), LAMBDA newTree :
                               [err |-> "", hash |-> newTree,
                                stored |-> child.stored \cup {newTree}]))))

\* tree.Files(): the names of the files of the tree
FileNames(tree) == {f.path : f \in tree}

\* The bytes file names are made of, in their order.  A name is kept as its
\* segments; "/" is below every letter, so comparing names byte by byte is
\* comparing them segment by segment, a name that begins another one first.
NameOrder == <<"a", "b", "c", "d">>

RECURSIVE NameLess(_, _)
NameLess(name, other) ==
    IF name = <<>> THEN other # <<>>
    ELSE IF other = <<>> THEN FALSE
    ELSE IF Head(name) = Head(other) THEN NameLess(Tail(name), Tail(other))
    ELSE IndexOf(NameOrder, Head(name)) < IndexOf(NameOrder, Head(other))

\* the names, largest first
RECURSIVE sortStringsDescending(_)
sortStringsDescending(files) ==
    IF files = {} THEN <<>>
    ELSE Bind(CHOOSE x \in files : \A y \in files \ {x} : NameLess(y, x), LAMBDA last :
            <<last>> \o sortStringsDescending(files \ {last}))

\* sort.Strings(files)
RECURSIVE sortStrings(_)
sortStrings(files) ==
    IF files = {} THEN <<>>
    ELSE Bind(CHOOSE x \in files : \A y \in files \ {x} : NameLess(x, y), LAMBDA first :
            <<first>> \o sortStrings(files \ {first}))

Writers == {"w1"}

\* the locals of a WriteChartFiles call that has not started
IdleWriter ==
    [pc |-> "idle", updates |-> <<>>, i |-> 0, baseTree |-> {}, parentHash |-> 0,
     seen |-> {}, treeHash |-> {}, commitHash |-> 0,
     result |-> [err |-> "", hash |-> 0]]

\* initBareRepo: HEAD designates refs/heads/main, which does not exist yet
ChartInit ==
    /\ blobs = {} /\ trees = {} /\ chartCommits = <<>> /\ branch = 0
    /\ wr = [w \in Writers |-> IdleWriter]
    /\ seen = <<>>

----------------------------------------------------------------------------
(* The server: chart creation (CreateChartRepo in chart/git.go) and the    *)
(* deploy handler with its locks (internal/server/deploy.go).              *)
(*                                                                         *)
(* A directory under the workdir is <<>> when it does not exist, else      *)
(* <<[head, commits, inits]>>: what HEAD designates ("none" without a HEAD *)
(* reference), the number of commits, and how many times git.PlainInit has *)
(* set HEAD in it.                                                         *)

ChartIds == {"u1", "u2"}    \* the values uuid.New() returns
Creators == {"c1", "c2"}    \* the CreateChartRepo calls in flight

MaxAttempts == 5            \* for attempts := 0; attempts < 5; attempts++

RepoDir(h, n, k) == [head |-> h, commits |-> n, inits |-> k]

\* the locals of a CreateChartRepo call that has not started, with what the
\* last call returned
IdleCreator ==
    [pc |-> "idle", attempts |-> 0, chartID |-> "", result |-> [err |-> "", id |-> ""]]

\* CreateChartRepo returns
CReturns(c, err, id) ==
    [cr EXCEPT ![c] = [IdleCreator EXCEPT !.result = [err |-> err, id |-> id]]]

\* os.MkdirAll(workdir), and the loop is entered
CBegin(c) ==
    /\ cr[c].pc = "idle"
    /\ cr' = [cr EXCEPT ![c] = [IdleCreator EXCEPT !.pc = "attempt"]]
    /\ UNCHANGED <<repos, deployVars, iacVars, planVars, chartVars, codecVars>>

\* one iteration of the loop up to initBareRepo: uuid.New(), os.Stat
CAttempt(c) ==
    /\ cr[c].pc = "attempt"
    /\ IF cr[c].attempts >= MaxAttempts
       THEN cr' = CReturns(c, "unable to allocate chart id", "")
       ELSE \E chartID \in ChartIds :
               IF repos[chartID] # <<>>
               THEN cr' = [cr EXCEPT ![c].attempts = @ + 1]
               ELSE cr' = [cr EXCEPT ![c].chartID = chartID, ![c].pc = "init"]
    /\ UNCHANGED <<repos, deployVars, iacVars, planVars, chartVars, codecVars>>

\* git.PlainInit, first half: the storage directories are made and HEAD is
\* read; ErrRepositoryAlreadyExists when there is a HEAD reference
CPlainInit(c) ==
    /\ cr[c].pc = "init"
    /\ \E dir \in {repos[cr[c].chartID]} :
        IF dir # <<>> /\ dir[1].head # "none"
        THEN /\ cr' = CReturns(c, "ErrRepositoryAlreadyExists", "")
             /\ UNCHANGED repos
        ELSE /\ cr' = [cr EXCEPT ![c].pc = "head"]
             /\ repos' = IF dir # <<>> THEN repos
                         ELSE [repos EXCEPT ![cr[c].chartID] = <<RepoDir("none", 0, 0)>>]
    /\ UNCHANGED <<deployVars, iacVars, planVars, chartVars, codecVars>>

\* git.PlainInit, second half: HEAD is set to the default branch
CPlainInitHead(c) ==
    /\ cr[c].pc = "head"
    /\ repos' = [repos EXCEPT ![cr[c].chartID] =
                    <<[@[1] EXCEPT !.head = "master", !.inits = @ + 1]>>]
    /\ cr' = [cr EXCEPT ![c].pc = "main"]
    /\ UNCHANGED <<deployVars, iacVars, planVars, chartVars, codecVars>>

\* initBareRepo: HEAD is set to refs/heads/main; CreateChartRepo returns
CSetHead(c) ==
    /\ cr[c].pc = "main"
    /\ repos' = [repos EXCEPT ![cr[c].chartID] = <<[@[1] EXCEPT !.head = "main"]>>]
    /\ cr' = CReturns(c, "", cr[c].chartID)
    /\ UNCHANGED <<deployVars, iacVars, planVars, chartVars, codecVars>>

(* The deploy handler.  A request is [pc, id, status, error]: the position *)
(* of HandleDeployCreate, the chart id of the request, and the response.   *)

DeployIds == {"u1", "u2"}
Requests  == {"r1", "r2", "r3"}

IdleDeploy == [pc |-> "idle", id |-> "", status |-> 0, error |-> ""]

\* tryAcquireDeployLock: [ok, locks]
tryAcquireDeployLock(locks, id) ==
    IF id \in locks THEN [ok |-> FALSE, locks |-> locks]
    ELSE [ok |-> TRUE, locks |-> locks \cup {id}]

\* the handler, had it kept the lock on return
KeepDeployLock(locks, id) == locks

releaseDeployLock(locks, id) == locks \ {id}

\* writeJSON(w, status, ..) and return, before the lock is taken
Responds(r, status, error) ==
    [dq EXCEPT ![r] = [pc |-> "idle", id |-> dq[r].id, status |-> status, error |-> error]]

\* writeJSON(w, status, ..) and return, with the deferred releaseDeployLock
RespondsAndReleases(r, status, error) ==
    /\ dq' = Responds(r, status, error)
    /\ deployLocks' = releaseDeployLock(deployLocks, dq[r].id)

\* HandleDeployCreate up to tryAcquireDeployLock, on a body with that id
DeployCreate(r) ==
    /\ dq[r].pc = "idle"
    /\ \E id \in DeployIds \cup {"not-a-uuid"} :
        IF id = "not-a-uuid"
        THEN /\ dq' = [dq EXCEPT ![r] = [pc |-> "idle", id |-> id, status |-> 400,
                                         error |-> "invalid chart id"]]
             /\ UNCHANGED deployLocks
        ELSE \E acquired \in {tryAcquireDeployLock(deployLocks, id)} :
                /\ deployLocks' = acquired.locks
                /\ dq' = [dq EXCEPT ![r] =
                            IF acquired.ok
                            THEN [pc |-> "token", id |-> id, status |-> 0, error |-> ""]
                            ELSE [pc |-> "idle", id |-> id, status |-> 409,
                                  error |-> "deploy_in_progress"]]
    /\ UNCHANGED <<createVars, iacVars, planVars, chartVars, codecVars>>

\* auth.BearerToken(r)
DeployToken(r) ==
    /\ dq[r].pc = "token"
    /\ \E token \in {"", "token"} :
        IF token = "" THEN RespondsAndReleases(r, 401, "Unauthorized")
        ELSE dq' = [dq EXCEPT ![r].pc = "key"] /\ UNCHANGED deployLocks
    /\ UNCHANGED <<createVars, iacVars, planVars, chartVars, codecVars>>

\* user.LoadUserPublicKey(subject)
DeployKey(r) ==
    /\ dq[r].pc = "key"
    /\ \E err \in {"", "ErrNotExist", "other"} :
        CASE err = "" -> dq' = [dq EXCEPT ![r].pc = "run"] /\ UNCHANGED deployLocks
          [] err = "ErrNotExist" -> RespondsAndReleases(r, 404, "ssh_public_key_not_found")
          [] OTHER -> RespondsAndReleases(r, 500, "key_load_failed")
    /\ UNCHANGED <<createVars, iacVars, planVars, chartVars, codecVars>>

\* deploy.RunDockerDeploy is called: the runner starts
DeployRun(r) ==
    /\ dq[r].pc = "run"
    /\ dq' = [dq EXCEPT ![r].pc = "running"]
    /\ UNCHANGED <<deployLocks, createVars, iacVars, planVars, chartVars, codecVars>>

\* deploy.RunDockerDeploy returns, and the handler after it
DeployDone(r) ==
    /\ dq[r].pc = "running"
    /\ \E err \in {"", "ErrInvalidRef", "ErrNotExist", "other"} :
        CASE err = "" -> RespondsAndReleases(r, 200, "")
          [] err = "ErrInvalidRef" -> RespondsAndReleases(r, 400, "deploy_failed")
          [] err = "ErrNotExist" -> RespondsAndReleases(r, 404, "deploy_failed")
          [] OTHER -> RespondsAndReleases(r, 500, "deploy_failed")
    /\ UNCHANGED <<createVars, iacVars, planVars, chartVars, codecVars>>

\* no chart directory, no call and no request yet
ServerIdle ==
    /\ repos = [id \in ChartIds |-> <<>>]
    /\ cr = [c \in Creators |-> IdleCreator]
    /\ deployLocks = {}
    /\ dq = [r \in Requests |-> IdleDeploy]

----------------------------------------------------------------------------
(* Specification of IacStorage: the calls of the HTTP routes, one at a     *)
(* time (single active editor), on a repository that starts empty.         *)

MaxCommits == 3    \* commit objects the model lets the repository hold

IacGraphs ==
    {Graph(<<Node("n1", "compute", "A", "infra", P0, Undef)>>, <<>>),
     Graph(<<Node("n2", "service", "S", "service", P1, EmptyObj),
             Node("n1", "compute", "A", "infra", P1, ConfigAB)>>,
           <<Edge("e1", "data", "n1", "n2", Str(""))>>)}

IacLayers == {DEFAULT_LAYERS}

\* input.drift: omitted, or with an entry for n1 only
IacDrifts == {<<>>, <<[id |-> "n1", item |-> DriftItem("in_sync", "")]>>}

VersionNames == {"v1", DRAFT_SUBJECT}
VersionNotes == {Undef, Str("notes")}
Clock        == {"t1"}

NoCall == [op |-> "none", input |-> [none |-> TRUE], ok |-> TRUE, err |-> "",
           headBefore |-> 0, histBefore |-> 0, ret |-> <<>>]

Called(op, input, st, ret) ==
    [op |-> op, input |-> input, ok |-> st.err = "", err |-> st.err,
     headBefore |-> head, histBefore |-> Len(History(commits, head)), ret |-> ret]

\* the repository after the call
Becomes(st) ==
    /\ Len(st.cs) <= MaxCommits
    /\ workTf' = st.wTf /\ workMeta' = st.wMeta
    /\ idxTf' = st.iTf /\ idxMeta' = st.iMeta
    /\ commits' = st.cs /\ head' = st.hd

IacInit ==
    /\ workTf = <<>> /\ workMeta = <<>> /\ idxTf = <<>> /\ idxMeta = <<>>
    /\ commits = <<>> /\ head = 0
    /\ lastCall = NoCall
    /\ created = {}

GetWorkspace ==
    \E r \in {WorkspaceOrThrow(getWorkspace(Repo))} :
        /\ Becomes(r.st)
        /\ lastCall' = Called("getWorkspace", [none |-> TRUE], r.st, r.ws)
        /\ UNCHANGED <<created, planVars, chartVars, codecVars, serverVars>>

UpdateWorkspace ==
    \E g \in IacGraphs, l \in IacLayers, d \in IacDrifts :
        \E input \in {[graph |-> g, layers |-> l, drift |-> d]} :
        \E r \in {updateWorkspace(Repo, input)} :
            /\ Becomes(r.st)
            /\ lastCall' = Called("updateWorkspace", input, r.st, r.ws)
            /\ UNCHANGED <<created, planVars, chartVars, codecVars, serverVars>>

CreateVersion ==
    \E nm \in VersionNames, nt \in VersionNotes :
        \E input \in {[name |-> nm, notes |-> nt]} :
        \E r \in {createVersion(Repo, input)} :
            /\ Becomes(r.st)
            /\ lastCall' = Called("createVersion", input, r.st, r.ret)
            /\ created' = created \cup Range(r.ret)
            /\ UNCHANGED <<planVars, chartVars, codecVars, serverVars>>

UpdateDrift ==
    \E id \in {"n1"}, status \in {"drifted"}, now \in Clock :
        \E input \in {[nodeId |-> id, status |-> status]} :
        \E r \in {updateDrift(Repo, input, now)} :
            /\ Becomes(r.st)
            /\ lastCall' = Called("updateDrift", input, r.st, r.ws)
            /\ UNCHANGED <<created, planVars, chartVars, codecVars, serverVars>>

CheckoutVersion ==
    \E id \in 0..Len(commits), flag \in {"absent", "true", "false"} :
        \E input \in {[id |-> id, commitDraft |-> flag]} :
        \E r \in {checkoutVersion(Repo, id, flag)} :
            /\ Becomes(r.st)
            /\ lastCall' = Called("checkoutVersion", input, r.st, r.ws)
            /\ UNCHANGED <<created, planVars, chartVars, codecVars, serverVars>>

PlanIdle == planIn = [current |-> Graph(<<>>, <<>>), base |-> <<>>] /\ planOut = <<>>

\* no encode or decode yet
CodecIdle == codecIn = <<>> /\ codecOut = <<>>

Init == IacInit /\ PlanIdle /\ ChartInit /\ CodecIdle /\ ServerIdle

Next ==
    \/ GetWorkspace
    \/ UpdateWorkspace
    \/ CreateVersion
    \/ UpdateDrift
    \/ CheckoutVersion

Spec == Init /\ [][Next]_vars

----------------------------------------------------------------------------
(* Specification of IacStorage on a workspace directory as it is found:    *)
(* the primary file absent, well formed or corrupt, the history empty or   *)
(* inherited; with the read-only routes (the version list, the plan).      *)

MaxLiveCommits == 2    \* commit objects the calls add to the inherited ones

\* the primary file found: none; a definition; text cut short; the JSON
\* values null and {}
LiveFiles ==
    {<<>>,
     <<TfDocument(buildTfPayload(Graph(<<Node("n1", "compute", "A", "infra", P0, Undef)>>,
                                       <<>>), DEFAULT_LAYERS))>>,
     <<Text("{ \"locals\": ")>>,
     <<Null>>,
     <<EmptyObj>>}

\* the metadata file found: none, or one without node entries
LiveMetadata == {<<>>, << <<>> >>}

\* a commit made outside IacStorage
Inherited(tf, parent) ==
    [tf |-> tf, meta |-> << <<>> >>, parent |-> parent, subject |-> "import", body |-> ""]

\* the history found: none; one commit without the primary file; a commit
\* with a definition below one whose primary file is empty
InheritedHistories ==
    {<<>>,
     <<Inherited(<<>>, 0)>>,
     <<Inherited(<<TfDocument(buildTfPayload(DEFAULT_GRAPH, DEFAULT_LAYERS))>>, 0),
       Inherited(<<Text("")>>, 1)>>}

\* the commits the calls have added
Added(cs) == {i \in 1..Len(cs) : cs[i].subject # "import"}

InitLive ==
    /\ workTf \in LiveFiles
    /\ workMeta \in LiveMetadata
    /\ workTf = <<>> \/ workMeta # <<>>
    /\ commits \in InheritedHistories
    /\ head = Len(commits)
    /\ idxTf = (IF commits = <<>> THEN <<>> ELSE commits[Len(commits)].tf)
    /\ idxMeta = (IF commits = <<>> THEN <<>> ELSE commits[Len(commits)].meta)
    /\ lastCall = NoCall
    /\ created = {}
    /\ PlanIdle /\ ChartInit /\ CodecIdle /\ ServerIdle

\* GET /api/versions
ListVersions ==
    /\ lastCall' = Called("listVersions", [none |-> TRUE], Repo, listVersions(Repo))
    /\ UNCHANGED <<workTf, workMeta, idxTf, idxMeta, commits, head, created,
                   planVars, chartVars, codecVars, serverVars>>

\* getLatestVersion, had it taken the oldest version
getLatestVersionOldest(st) ==
    Bind(listVersions(st), LAMBDA versions :
        IF Len(versions) > 0 THEN <<versions[Len(versions)]>> ELSE <<>>)

\* getLatestVersion: versions[0] ?? null
getLatestVersion(st) ==
    Bind(listVersions(st), LAMBDA versions :
        IF Len(versions) > 0 THEN <<versions[1]>> ELSE <<>>)

\* the ids a request may name: every commit, and 0 for an id that is none
\* POST /api/plan with body.baseVersionId = <<>> (absent) or <<id>>
PlanRoute ==
    \E baseVersionId \in {<<>>} \cup {<<id>> : id \in 0..Len(commits)} :
    \E got \in {getWorkspace(Repo)} :
        /\ Becomes(got.st)
        /\ UNCHANGED <<created, planVars, chartVars, codecVars, serverVars>>
        /\ IF got.st.err # ""
           THEN lastCall' = Called("plan", [baseVersionId |-> baseVersionId], got.st, <<>>)
           ELSE \E baseVersion \in {IF baseVersionId # <<>>
                                     THEN getVersion(got.st, baseVersionId[1])
                                     ELSE getLatestVersion(got.st)} :
                    lastCall' = Called("plan", [baseVersionId |-> baseVersionId], got.st,
                        <<createPlan(got.ws.graph,
                                     IF baseVersion = <<>> THEN <<>>
                                     ELSE <<baseVersion[1].graph>>,
                                     IF baseVersion = <<>> THEN <<>>
                                     ELSE <<baseVersion[1].id>>)>>)

\* the calls add no more than MaxLiveCommits commits
WithinLive == Cardinality(Added(commits')) <= MaxLiveCommits

LiveUpdateWorkspace == UpdateWorkspace /\ WithinLive
LiveCreateVersion   == CreateVersion /\ WithinLive
LiveCheckoutVersion == CheckoutVersion /\ WithinLive

NextLive ==
    \/ GetWorkspace
    \/ LiveUpdateWorkspace
    \/ LiveCreateVersion
    \/ UpdateDrift
    \/ LiveCheckoutVersion
    \/ ListVersions
    \/ PlanRoute

SpecLive == InitLive /\ [][NextLive]_vars

----------------------------------------------------------------------------
(* Bounded inputs of the diff engine.                                      *)

MaxNodes   == 2    \* nodes per graph
MaxEdges   == 2    \* edges per graph
MaxChanged == 2    \* fields in which a drawn node differs from the reference node

PlanConfigs == {Undef, EmptyObj, ConfigAB, ConfigBA, ConfigSwap, ConfigStr, ConfigNest}

RefNode == Node("n1", "compute", "Old", "infra", P0, Undef)

Differing(nd) ==
    Cardinality({f \in {"kind", "label", "layerId", "position", "config"} :
                    nd[f] # RefNode[f]})

N1Variants ==
    {nd \in {Node("n1", k, l, ly, p, c) :
                k \in {"compute", "service"}, l \in {"Old", "New"},
                ly \in {"infra", "service"}, p \in {P0, P1}, c \in PlanConfigs} :
        Differing(nd) <= MaxChanged}

N2Variants == {Node("n2", "service", l, "service", P1, ConfigAB) : l \in {"Old", "New"}}

RefEdge == Edge("e1", "data", "n1", "n2", Undef)

E1Variants ==
    {e \in {Edge("e1", k, src, tgt, l) :
               k \in {"data", "control"}, src \in {"n1", "n2"}, tgt \in {"n2", "n1"},
               l \in {Undef, Str(""), Str("L")}} :
        Cardinality({f \in {"kind", "source", "target", "label"} : e[f] # RefEdge[f]}) <= 1}

E2Variants == {Edge("e2", "network", "n2", "n1", Str("L"))}

UniqueIds(xs) == \A i, j \in 1..Len(xs) : i # j => xs[i].id # xs[j].id

NodeLists == {ns \in UNION {[1..k -> N1Variants \cup N2Variants] : k \in 0..MaxNodes} :
                 UniqueIds(ns)}

EdgeLists == {es \in UNION {[1..k -> E1Variants \cup E2Variants] : k \in 0..MaxEdges} :
                 UniqueIds(es)}

Renamed == Node("n1", "compute", "New", "infra", P0, Undef)

\* Graphs that vary in their nodes, graphs that vary in their edges, and the
\* two graphs of the rename scenario.
PlanGraphs ==
    {Graph(ns, <<RefEdge>>) : ns \in NodeLists}
    \cup {Graph(ns, es) :
            ns \in {<<>>, <<RefNode, Node("n2", "service", "Old", "service", P1, ConfigAB)>>},
            es \in EdgeLists}
    \cup {Graph(<<RefNode>>, <<>>), Graph(<<Renamed>>, <<>>)}

----------------------------------------------------------------------------
(* Specification of the diff engine: draw (current, base), call createPlan *)

InitPlan ==
    /\ IacInit
    /\ ChartInit
    /\ CodecIdle
    /\ ServerIdle
    /\ planIn \in {[current |-> c, base |-> b] :
                      c \in PlanGraphs, b \in {<<>>} \cup {<<g>> : g \in PlanGraphs}}
    /\ planOut = <<>>

CreatePlanCall ==
    /\ planOut = <<>>
    /\ planOut' = <<createPlan(planIn.current, planIn.base,
                               IF planIn.base = <<>> THEN Undef ELSE Str("base"))>>
    /\ UNCHANGED <<planIn, iacVars, chartVars, codecVars, serverVars>>

NextPlan == CreatePlanCall

SpecPlan == InitPlan /\ [][NextPlan]_vars

----------------------------------------------------------------------------
(* Specification of the chart repository: one writer calling               *)
(* WriteChartFiles, step by step, and a reader calling ListChartTree.      *)

MaxFiles        == 2    \* files of one WriteChartFiles call
MaxChartCommits == 2    \* commit objects of the repository

Update(path, content) == [path |-> path, content |-> content]

\* a, d/b, d/../a (a again), and two malformed paths: ../escape.json and /a
FileUpdates ==
    {Update(Path(FALSE, <<"a">>), "x"),
     Update(Path(FALSE, <<"d", "b">>), "y"),
     Update(Path(FALSE, <<"d", "..", "a">>), "y"),
     Update(Path(FALSE, <<"..", "escape.json">>), "y"),
     Update(Path(TRUE, <<"a">>), "x")}

UpdateBatches == UNION {[1..n -> FileUpdates] : n \in 0..MaxFiles}

\* the call returns: its locals are gone, what is kept is what it returned
Returns(w, err, hash) ==
    [wr EXCEPT ![w] = [IdleWriter EXCEPT !.result = [err |-> err, hash |-> hash]]]

\* WriteChartFiles up to the loop, on a batch of batches: the branch and the
\* tree of its commit
Begin(w, batches) ==
    /\ wr[w].pc = "idle"
    /\ Len(chartCommits) < MaxChartCommits
    /\ \E updates \in batches :
            wr' = [wr EXCEPT ![w] =
                    IF Len(updates) = 0
                    THEN [IdleWriter EXCEPT !.result = [err |-> "ErrInvalidPath", hash |-> 0]]
                    ELSE [IdleWriter EXCEPT
                            !.updates = updates,
                            !.pc = "loop", !.i = 1, !.parentHash = branch,
                            !.baseTree = IF branch # 0 THEN chartCommits[branch].tree
                                         ELSE {}]]
    /\ UNCHANGED <<blobs, trees, chartCommits, branch, seen, iacVars, planVars, codecVars, serverVars>>

WBegin(w) == Begin(w, UpdateBatches)

\* one iteration of the loop over updates
WFile(w) ==
    /\ wr[w].pc = "loop"
    /\ wr[w].i <= Len(wr[w].updates)
    /\ \E update \in {wr[w].updates[wr[w].i]} :
       \E clean \in {cleanChartPath(update.path)} :
        IF clean.err # ""
        THEN /\ wr' = Returns(w, clean.err, 0)
             /\ UNCHANGED <<blobs, trees>>
        ELSE IF clean.parts \in wr[w].seen
        THEN /\ wr' = Returns(w, "ErrInvalidPath", 0)
             /\ UNCHANGED <<blobs, trees>>
        ELSE
          \E written \in {writeTree(wr[w].baseTree, clean.parts, update.content)} :
            /\ blobs' = blobs \cup {update.content}
            /\ trees' = trees \cup written.stored
            /\ wr' = IF written.err # ""
                     THEN Returns(w, written.err, 0)
                     ELSE [wr EXCEPT ![w].seen = @ \cup {clean.parts},
                                     ![w].treeHash = written.hash,
                                     ![w].baseTree = written.hash,
                                     ![w].i = @ + 1]
    /\ UNCHANGED <<chartCommits, branch, seen, iacVars, planVars, codecVars, serverVars>>

\* the commit object is encoded and stored
WCommit(w) ==
    /\ wr[w].pc = "loop"
    /\ wr[w].i > Len(wr[w].updates)
    /\ chartCommits' = Append(chartCommits,
                              [tree    |-> wr[w].treeHash,
                               parents |-> IF wr[w].parentHash # 0
                                           THEN <<wr[w].parentHash>> ELSE <<>>,
                               message |-> "message"])
    /\ wr' = [wr EXCEPT ![w].pc = "ref", ![w].commitHash = Len(chartCommits) + 1]
    /\ UNCHANGED <<blobs, trees, branch, seen, iacVars, planVars, codecVars, serverVars>>

\* repo.Storer.SetReference(newRef), and the return
WSetRef(w) ==
    /\ wr[w].pc = "ref"
    /\ branch' = wr[w].commitHash
    /\ wr' = Returns(w, "", wr[w].commitHash)
    /\ UNCHANGED <<blobs, trees, chartCommits, seen, iacVars, planVars, codecVars, serverVars>>

\* ListChartTree(chartID, ""), at any point of the writer's call; at is
\* the point of the writer's call the reader ran at
ListChartTree ==
    /\ seen' = <<[hash  |-> branch,
                  files |-> IF branch = 0 THEN <<>>
                            ELSE sortStrings(FileNames(chartCommits[branch].tree)),
                  at    |-> [w \in Writers |-> wr[w].pc]]>>
    /\ UNCHANGED <<blobs, trees, chartCommits, branch, wr, iacVars, planVars, codecVars, serverVars>>

InitChart == IacInit /\ PlanIdle /\ ChartInit /\ CodecIdle /\ ServerIdle

NextChart ==
    \/ \E w \in Writers : WBegin(w)
    \/ \E w \in Writers : WFile(w)
    \/ \E w \in Writers : WCommit(w)
    \/ \E w \in Writers : WSetRef(w)
    \/ ListChartTree

SpecChart == InitChart /\ [][NextChart]_vars

----------------------------------------------------------------------------
(* Specification of the chart repository with paths of every shape: the    *)
(* writer alone, on batches that hold malformed paths and paths that       *)
(* collide with a file or a directory.                                     *)

\* a, d, d/b, d/c, d/../a (a again); malformed: ../escape.json, /a, "",
\* a/.. (".") and a/../.. ("..")
PathUpdates ==
    {Update(Path(FALSE, <<"a">>), "x"),
     Update(Path(FALSE, <<"d">>), "x"),
     Update(Path(FALSE, <<"d", "b">>), "y"),
     Update(Path(FALSE, <<"d", "c">>), "x"),
     Update(Path(FALSE, <<"d", "..", "a">>), "y"),
     Update(Path(FALSE, <<"..", "escape.json">>), "x"),
     Update(Path(TRUE, <<"a">>), "x"),
     Update(Path(FALSE, <<>>), "x"),
     Update(Path(FALSE, <<"a", "..">>), "x"),
     Update(Path(FALSE, <<"a", "..", "..">>), "x")}

PathBatches == UNION {[1..n -> PathUpdates] : n \in 0..MaxFiles}

WBeginAnyPath(w) == Begin(w, PathBatches)

NextPaths ==
    \/ \E w \in Writers : WBeginAnyPath(w)
    \/ \E w \in Writers : WFile(w)
    \/ \E w \in Writers : WCommit(w)
    \/ \E w \in Writers : WSetRef(w)

SpecPaths == InitChart /\ [][NextPaths]_vars

----------------------------------------------------------------------------
(* Specification of the chart repository under two writers: two            *)
(* WriteChartFiles calls on one chart (two requests served at once), their *)
(* steps interleaved.                                                      *)

RaceWriters == {"w1", "w2"}

\* a, d/b, and both
RaceBatches ==
    {<<Update(Path(FALSE, <<"a">>), "x")>>,
     <<Update(Path(FALSE, <<"d", "b">>), "y")>>,
     <<Update(Path(FALSE, <<"a">>), "y"), Update(Path(FALSE, <<"d", "b">>), "y")>>}

WBeginRace(w) == Begin(w, RaceBatches)

InitRace ==
    /\ IacInit /\ PlanIdle /\ CodecIdle /\ ServerIdle
    /\ blobs = {} /\ trees = {} /\ chartCommits = <<>> /\ branch = 0
    /\ wr = [w \in RaceWriters |-> IdleWriter]
    /\ seen = <<>>

NextRace ==
    \/ \E w \in RaceWriters : WBeginRace(w)
    \/ \E w \in RaceWriters : WFile(w)
    \/ \E w \in RaceWriters : WCommit(w)
    \/ \E w \in RaceWriters : WSetRef(w)

SpecRace == InitRace /\ [][NextRace]_vars

----------------------------------------------------------------------------
(* Specification of chart creation: two CreateChartRepo calls, their steps *)
(* interleaved, in a workdir that holds a chart with one commit or none.   *)

InitCreate ==
    /\ IacInit /\ PlanIdle /\ ChartInit /\ CodecIdle
    /\ repos \in {[id \in ChartIds |-> <<>>],
                  [id \in ChartIds |-> IF id = "u1" THEN <<RepoDir("main", 1, 1)>> ELSE <<>>]}
    /\ cr = [c \in Creators |-> IdleCreator]
    /\ deployLocks = {}
    /\ dq = [r \in Requests |-> IdleDeploy]

NextCreate ==
    \/ \E c \in Creators : CBegin(c)
    \/ \E c \in Creators : CAttempt(c)
    \/ \E c \in Creators : CPlainInit(c)
    \/ \E c \in Creators : CPlainInitHead(c)
    \/ \E c \in Creators : CSetHead(c)

SpecCreate == InitCreate /\ [][NextCreate]_vars

----------------------------------------------------------------------------
(* Specification of the deploy handler: requests served at once.           *)

InitDeploy == IacInit /\ PlanIdle /\ ChartInit /\ CodecIdle /\ ServerIdle

NextDeploy ==
    \/ \E r \in Requests : DeployCreate(r)
    \/ \E r \in Requests : DeployToken(r)
    \/ \E r \in Requests : DeployKey(r)
    \/ \E r \in Requests : DeployRun(r)
    \/ \E r \in Requests : DeployDone(r)

SpecDeploy == InitDeploy /\ [][NextDeploy]_vars

----------------------------------------------------------------------------
(* Claims about the diff engine (checked under SpecPlan).                  *)

PlanDone   == planOut # <<>>
PlanOps    == planOut[1].operations
PlanBase   == IF planIn.base = <<>> THEN Graph(<<>>, <<>>) ELSE planIn.base[1]
OpsOf(a, t) == {PlanOps[i].targetId : i \in {j \in 1..Len(PlanOps) :
                                                PlanOps[j].action = a /\ PlanOps[j].target = t}}

ById(xs, id) == xs[CHOOSE i \in 1..Len(xs) : xs[i].id = id]

WithoutPosition(nd) == [f \in {"id", "kind", "label", "layerId", "config"} |-> nd[f]]

\* current and base hold the same nodes and the same edges, whatever the
\* order, and differ at most in node positions.
SameUpToPosition ==
    /\ planIn.base # <<>>
    /\ {WithoutPosition(planIn.current.nodes[i]) : i \in 1..Len(planIn.current.nodes)}
         = {WithoutPosition(PlanBase.nodes[i]) : i \in 1..Len(PlanBase.nodes)}
    /\ Range(planIn.current.edges) = Range(PlanBase.edges)

\* C6: createPlan(current, base) has no operation and stats {0,0,0} whenever
\* current and base hold the same nodes and edges and differ at most in node
\* positions (current = base included).
C6_NoOpsUpToPosition ==
    (PlanDone /\ SameUpToPosition) =>
        /\ PlanOps = <<>>
        /\ planOut[1].stats = [adds |-> 0, updates |-> 0, deletes |-> 0]

\* C6 witness: a plan was computed for two graphs that are equal up to the
\* position of a node, and a position does differ.
C6_Witness ==
    /\ PlanDone
    /\ SameUpToPosition
    /\ \E i \in 1..Len(planIn.current.nodes) :
          planIn.current.nodes[i].position
            # ById(PlanBase.nodes, planIn.current.nodes[i].id).position

\* C7: the node (edge) create targets are ids(current) \ ids(base), the node
\* (edge) delete targets are ids(base) \ ids(current), a null base counting
\* as the empty graph; with a null base nothing is updated or deleted.
C7_CreateDeleteComplete ==
    PlanDone =>
        /\ OpsOf("create", "node") = Ids(planIn.current.nodes) \ Ids(PlanBase.nodes)
        /\ OpsOf("delete", "node") = Ids(PlanBase.nodes) \ Ids(planIn.current.nodes)
        /\ OpsOf("create", "edge") = Ids(planIn.current.edges) \ Ids(PlanBase.edges)
        /\ OpsOf("delete", "edge") = Ids(PlanBase.edges) \ Ids(planIn.current.edges)
        /\ planIn.base = <<>> =>
              \A i \in 1..Len(PlanOps) : PlanOps[i].action = "create"

\* C7 witness: a plan that both creates and deletes a node, one id kept.
C7_Witness ==
    /\ PlanDone
    /\ OpsOf("create", "node") # {}
    /\ OpsOf("delete", "node") # {}
    /\ Ids(planIn.current.edges) \cap Ids(PlanBase.edges) # {}

\* JSON equality stated on a canonical form: the members of every object put
\* in key order, arrays left in their order.
RECURSIVE Canon(_)
Canon(v) ==
    IF v.t = "obj"
    THEN LET ks == SortedKeys(v)
         IN  Obj([i \in 1..Len(ks) |-> KV(ks[i], Canon(Get(v, ks[i])))])
    ELSE IF v.t = "arr"
    THEN [v EXCEPT !.items = [i \in 1..Len(v.items) |-> KV("", Canon(v.items[i].val))]]
    ELSE v

\* The fields in which two nodes (edges) with one id differ, in the order the
\* engine examines them, each with the base value and the current value.
ExpectedNodeChanges(cur, bas) ==
    LET c == OrElse(cur.config, EmptyObj)
        b == OrElse(bas.config, EmptyObj)
    IN  SelectSeq(<<Change("kind", Str(bas.kind), Str(cur.kind)),
                    Change("label", Str(bas.label), Str(cur.label)),
                    Change("layerId", Str(bas.layerId), Str(cur.layerId))>>,
                  LAMBDA ch : ch.from # ch.to)
        \o (IF Canon(c) # Canon(b) THEN <<Change("config", b, c)>> ELSE <<>>)

ExpectedEdgeChanges(cur, bas) ==
    SelectSeq(<<Change("kind", Str(bas.kind), Str(cur.kind)),
                Change("source", Str(bas.source), Str(cur.source)),
                Change("target", Str(bas.target), Str(cur.target)),
                Change("label", OrElse(bas.label, Str("")), OrElse(cur.label, Str("")))>>,
              LAMBDA ch : ch.from # ch.to)

UpdatesOf(t, id) == {i \in 1..Len(PlanOps) :
                        /\ PlanOps[i].action = "update"
                        /\ PlanOps[i].target = t
                        /\ PlanOps[i].targetId = id}

\* C8: for an id in both graphs there is an update operation iff a compared
\* field differs (config by JSON equality, an absent config as {}, an absent
\* edge label as ""), there is then exactly one, and its changes are exactly
\* the differing fields with from = base value and to = current value;
\* renaming n1 from "Old" to "New" gives the single operation of the example.
C8_UpdateExactlyDiffering ==
    PlanDone =>
        /\ \A id \in Ids(planIn.current.nodes) \cap Ids(PlanBase.nodes) :
              LET exp == ExpectedNodeChanges(ById(planIn.current.nodes, id),
                                             ById(PlanBase.nodes, id))
              IN  /\ (UpdatesOf("node", id) # {}) <=> (exp # <<>>)
                  /\ Cardinality(UpdatesOf("node", id)) <= 1
                  /\ \A i \in UpdatesOf("node", id) : PlanOps[i].changes = exp
        /\ \A id \in Ids(planIn.current.edges) \cap Ids(PlanBase.edges) :
              LET exp == ExpectedEdgeChanges(ById(planIn.current.edges, id),
                                             ById(PlanBase.edges, id))
              IN  /\ (UpdatesOf("edge", id) # {}) <=> (exp # <<>>)
                  /\ Cardinality(UpdatesOf("edge", id)) <= 1
                  /\ \A i \in UpdatesOf("edge", id) : PlanOps[i].changes = exp
        /\ (planIn = [current |-> Graph(<<Renamed>>, <<>>),
                      base |-> <<Graph(<<RefNode>>, <<>>)>>]) =>
              /\ PlanOps = <<Operation("update", "node", "n1", <<"Update node", "New">>,
                                       <<Change("label", Str("Old"), Str("New"))>>)>>
              /\ planOut[1].stats = [adds |-> 0, updates |-> 1, deletes |-> 0]

\* C8 witness: the rename of the example has been diffed.
C8_Witness ==
    /\ PlanDone
    /\ planIn = [current |-> Graph(<<Renamed>>, <<>>), base |-> <<Graph(<<RefNode>>, <<>>)>>]
    /\ Len(PlanOps) = 1

----------------------------------------------------------------------------
(* Claims about IacStorage (checked under Spec).                           *)

Log          == History(commits, head)
DraftsInLog  == {i \in 1..Len(Log) : isDraftSubject(commits[Log[i]].subject)}
TreeOf(id)   == [tf |-> commits[id].tf, meta |-> commits[id].meta]
Returned(op) == lastCall.op = op /\ lastCall.ok

\* C1: after updateWorkspace returns, the working copies of planemgr.tf.json
\* and planemgr.json are identical to their content in the commit at HEAD.
C1_CleanAfterUpdate ==
    Returned("updateWorkspace") =>
        /\ hasHeadCommit(Repo)
        /\ workTf = HeadTree(Repo).tf
        /\ workMeta = HeadTree(Repo).meta

\* C2: an updateWorkspace call that repeats the input of the updateWorkspace
\* call just before it leaves the hash at HEAD unchanged.
C2_RepeatedUpdateKeepsHead ==
    [][(/\ Returned("updateWorkspace")
        /\ lastCall'.op = "updateWorkspace" /\ lastCall'.ok
        /\ lastCall'.input = lastCall.input)
       => head' = head]_vars

AtMostOneDraftAtHead == DraftsInLog \subseteq {1}

\* Two consecutive updateWorkspace calls with different graphs: one draft
\* at HEAD, and the history one commit longer, at most, than before the first.
DraftAmendScenario ==
    (/\ Returned("updateWorkspace")
     /\ lastCall'.op = "updateWorkspace" /\ lastCall'.ok
     /\ lastCall'.input.graph # lastCall.input.graph)
    => /\ {i \in 1..Len(History(commits', head')) :
            isDraftSubject(commits'[History(commits', head')[i]].subject)} = {1}
       /\ Len(History(commits', head')) <= lastCall.histBefore + 1

\* C3: the history holds at most one commit with subject "Draft: workspace",
\* and it is HEAD; two updateWorkspace calls in a row with different graphs
\* leave exactly one draft at HEAD and grow the history by one commit, not two.
C3_DraftsOverwritten == []AtMostOneDraftAtHead /\ [][DraftAmendScenario]_vars

\* an updateWorkspace call has replaced the draft at HEAD by a new draft
C3_Witness ==
    /\ Returned("updateWorkspace")
    /\ lastCall.headBefore # 0
    /\ isDraftSubject(commits[lastCall.headBefore].subject)
    /\ head # lastCall.headBefore
    /\ Len(Log) = lastCall.histBefore
    /\ DraftsInLog = {1}

GraphContent(g) ==
    [nodes |-> [i \in 1..Len(g.nodes) |-> WithoutPosition(g.nodes[i])], edges |-> g.edges]

SameVersion(v, w) ==
    /\ v.id = w.id /\ v.name = w.name /\ v.notes = w.notes
    /\ GraphContent(v.graph) = GraphContent(w.graph)

\* C4: every version createVersion has returned is still listed by
\* listVersions with its id, name, notes and graph, and getVersion returns it.
C4_VersionsKept ==
    \A v \in created :
        /\ \E i \in 1..Len(listVersions(Repo)) : SameVersion(listVersions(Repo)[i], v)
        /\ getVersion(Repo, v.id) # <<>>
        /\ SameVersion(getVersion(Repo, v.id)[1], v)

\* C5: when createVersion returns, the returned id is a commit with subject
\* = name that took the place of the draft HEAD or has the old HEAD as its
\* parent, and HEAD is a draft whose parent is that commit, with the same tree.
C5_NamedThenDraft ==
    Returned("createVersion") =>
        \E v \in Range(lastCall.ret) :
            /\ v.id \in 1..Len(commits)
            /\ commits[v.id].subject = lastCall.input.name
            /\ IF lastCall.headBefore # 0
                  /\ isDraftSubject(commits[lastCall.headBefore].subject)
               THEN commits[v.id].parent = commits[lastCall.headBefore].parent
               ELSE commits[v.id].parent = lastCall.headBefore
            /\ isDraftHead(Repo)
            /\ head # v.id
            /\ commits[head].parent = v.id
            /\ TreeOf(head) = TreeOf(v.id)

----------------------------------------------------------------------------
(* Claims about the chart repository (checked under SpecChart).            *)

Tip == IF branch = 0 THEN <<>> ELSE <<branch>>

\* the files a batch of updates asks for
Written(updates) ==
    {File(cleanChartPath(updates[i].path).parts, updates[i].content) : i \in 1..Len(updates)}

\* the branch designates a commit of the store whose tree and blobs are in
\* the store; until the reference is set, it is the tip the call started from
TipIsWhole ==
    /\ branch \in 0..Len(chartCommits)
    /\ branch # 0 => /\ chartCommits[branch].tree \in trees
                     /\ \A f \in chartCommits[branch].tree : f.blob \in blobs
    /\ \A w \in Writers : wr[w].pc # "idle" => branch = wr[w].parentHash

\* The call stores one commit, as the step before setting the reference;
\* the reference moves as the last step, to that commit, whose only parent
\* is the previous tip and whose tree holds every file of the batch; and a
\* reader sees the tip, which during a call is the previous tip.
OneCommitThenRef ==
    /\ chartCommits' # chartCommits =>
         \E w \in Writers :
            /\ wr[w].pc = "loop" /\ wr'[w].pc = "ref"
            /\ Len(chartCommits') = Len(chartCommits) + 1
            /\ SubSeq(chartCommits', 1, Len(chartCommits)) = chartCommits
            /\ wr'[w].commitHash = Len(chartCommits')
    /\ branch' # branch =>
         \E w \in Writers :
            /\ wr[w].pc = "ref" /\ wr'[w].pc = "idle"
            /\ chartCommits' = chartCommits
            /\ branch' = wr[w].commitHash
    /\ \A w \in Writers :
         (wr[w].pc = "ref" /\ wr'[w].pc = "idle") =>
            /\ wr'[w].result = [err |-> "", hash |-> branch']
            /\ Len(wr[w].updates) >= 1
            /\ chartCommits[branch'].parents = Tip
            /\ Written(wr[w].updates) \subseteq chartCommits[branch'].tree
    /\ seen' # seen =>
         /\ seen'[1].hash = branch
         /\ Range(seen'[1].files) = IF branch = 0 THEN {}
                                    ELSE FileNames(chartCommits[branch].tree)

\* C9: a successful WriteChartFiles call adds exactly one commit, whose
\* single parent is the previous tip (none on an empty repository) and whose
\* tree contains all the written files; the commit is stored and the branch
\* moved as the last two steps, so a reader sees the previous tip or the new
\* one, never a tree with only some of the files.
C9_OneCommitVisibleAtOnce == []TipIsWhole /\ [][OneCommitThenRef]_vars

\* a call has written a and d/b on top of a first commit, and a reader that
\* ran after the commit was stored and before the reference moved saw the
\* first commit
C9_Witness ==
    /\ wr["w1"].pc = "idle" /\ wr["w1"].result = [err |-> "", hash |-> 2]
    /\ branch = 2
    /\ chartCommits[1].tree = {File(<<"a">>, "x")}
    /\ chartCommits[2].parents = <<1>>
    /\ chartCommits[2].tree = {File(<<"a">>, "y"), File(<<"d", "b">>, "y")}
    /\ seen = <<[hash |-> 1, files |-> << <<"a">> >>, at |-> [w \in Writers |-> "ref"]]>>

\* the input WriteChartFiles accepts: at least one file, every path well
\* formed, no path twice
ValidBatch(updates) ==
    /\ Len(updates) >= 1
    /\ \A i \in 1..Len(updates) : cleanChartPath(updates[i].path).err = ""
    /\ \A i, j \in 1..Len(updates) :
          i # j => cleanChartPath(updates[i].path).parts # cleanChartPath(updates[j].path).parts

\* C10: a WriteChartFiles call with invalid input (no file, a path twice, a
\* malformed path) is rejected before any mutation: a step that adds a blob,
\* a tree or a commit to the store, or moves the branch, belongs to a call
\* whose batch is valid.
C10_RejectedBeforeMutation ==
    [][(blobs' # blobs \/ trees' # trees \/ chartCommits' # chartCommits \/ branch' # branch)
       => \E w \in Writers : wr[w].pc # "idle" /\ ValidBatch(wr[w].updates)]_vars

----------------------------------------------------------------------------
(* Specification of the codec: encode a graph and a layer list into the    *)
(* primary file, decode the file with a metadata document, and decode it   *)
(* again with the metadata the first decoding returned.                    *)

MaxCodecNodes == 2
MaxCodecEdges == 2

Size(w, h) == [width |-> w, height |-> h]

\* a node that carries the optional size
SizedNode(node, size) ==
    [f \in DOMAIN node \cup {"size"} |-> IF f = "size" THEN size ELSE node[f]]

CodecNodes ==
    {Node("n1", "compute", "A", "infra", P0, Undef),
     Node("n2", "service", "S", "service", P1, ConfigAB),
     Node("n2", "service", "S", "service", P0, EmptyObj),
     SizedNode(Node("n3", "platform", "P", "infra", P1, Undef), Size(400, 300)),
     Node(Composed, "data", "C", "service", P0, Undef),
     Node(Decomposed, "data", "D", "service", P1, Undef)}

CodecEdges ==
    {Edge("e1", "data", "n1", "n2", Str("deploys")),
     Edge("e1", "network", "n1", "n1", Undef),
     Edge("e2", "control", "n2", "n1", Str(""))}

CodecGraphs ==
    {Graph(ns, es) :
        ns \in {s \in InjSeqs(CodecNodes, MaxCodecNodes) : UniqueIds(s)},
        es \in {s \in InjSeqs(CodecEdges, MaxCodecEdges) : UniqueIds(s)}}

CodecLayers == {<<>>, DEFAULT_LAYERS, <<DEFAULT_LAYERS[4], DEFAULT_LAYERS[2]>>}

\* What a metadata document may hold for a node: nothing; a position; a
\* position and a drift item; a position without y and a drift item; a
\* position and a drift item whose status is not of the enumeration.
MetadataVariants == 1..5

MetadataVariant(id, v) ==
    CASE v = 1 -> <<>>
      [] v = 2 -> <<[id |-> id, items |-> <<PositionMember(P1)>>]>>
      [] v = 3 -> <<[id |-> id, items |-> <<PositionMember(P1),
                                            DriftMember(DriftItem("drifted", "t1"))>>]>>
      [] v = 4 -> <<[id |-> id, items |-> <<PositionMember([x |-> 0]),
                                            DriftMember(DriftItem("in_sync", ""))>>]>>
      [] v = 5 -> <<[id |-> id, items |-> <<PositionMember(P0),
                                            DriftMember(<<[k |-> "status", v |-> "bogus"]>>)>>]>>

\* the metadata documents with entries for some of the nodes
CodecMetadata(nodes) ==
    {Flatten([i \in 1..Len(nodes) |-> MetadataVariant(nodes[i].id, v[i])]) :
        v \in [1..Len(nodes) -> MetadataVariants]}

\* encode: the document writeJsonFile writes for buildTfPayload(graph, layers)
encode(graph, layers) == TfDocument(buildTfPayload(graph, layers))

\* decode: parsePlanemgrTf on the primary document, then buildWorkspaceGraph
\* with the node entries of the metadata document: [graph, layers, drift,
\* metadata, metadataUpdated]
decode(file, metadataNodes) ==
    Bind(parsePlanemgrTf(file), LAMBDA tfState :
    Bind(buildWorkspaceGraph(tfState, metadataNodes), LAMBDA built :
        [graph |-> built.graph, layers |-> tfState.layers, drift |-> built.drift,
         metadata |-> built.metadata, metadataUpdated |-> built.updated]))

EncodeCall ==
    /\ CodecIdle
    /\ \E g \in CodecGraphs, l \in CodecLayers :
        /\ codecIn' = <<[graph |-> g, layers |-> l, metadata |-> <<>>]>>
        /\ codecOut' = <<[file |-> encode(g, l), decoded |-> <<>>, again |-> <<>>]>>
        /\ UNCHANGED <<iacVars, planVars, chartVars, serverVars>>

DecodeCall ==
    /\ codecOut # <<>> /\ codecOut[1].decoded = <<>>
    /\ \E m \in CodecMetadata(parsePlanemgrTf(codecOut[1].file).nodes) :
        /\ codecIn' = <<[codecIn[1] EXCEPT !.metadata = m]>>
        /\ codecOut' = <<[codecOut[1] EXCEPT !.decoded = <<decode(codecOut[1].file, m)>>,
                                             !.again = <<>>]>>
    /\ UNCHANGED <<iacVars, planVars, chartVars, serverVars>>

\* the metadata the decoding returned is saved, and the files decoded again
DecodeAgainCall ==
    /\ codecOut # <<>> /\ codecOut[1].decoded # <<>> /\ codecOut[1].again = <<>>
    /\ codecOut' = <<[codecOut[1] EXCEPT !.again =
            <<decode(codecOut[1].file,
                     MetadataNodes(<<codecOut[1].decoded[1].metadata>>))>>]>>
    /\ UNCHANGED <<codecIn, iacVars, planVars, chartVars, serverVars>>

InitCodec == IacInit /\ PlanIdle /\ ChartInit /\ CodecIdle /\ ServerIdle

NextCodec ==
    \/ EncodeCall
    \/ DecodeCall
    \/ DecodeAgainCall

SpecCodec == InitCodec /\ [][NextCodec]_vars

----------------------------------------------------------------------------
(* Claims about the paths of a batch (checked under SpecPaths).            *)

\* the step on which the call of w returns, after at least one iteration
Returning(w) == wr[w].pc # "idle" /\ wr'[w].pc = "idle"

\* the batch holds a path cleanChartPath refuses
HasInvalidPath(updates) ==
    \E i \in 1..Len(updates) : cleanChartPath(updates[i].path).err = "ErrInvalidPath"

\* tree.File(path): the contents of the file at parts in a tree, none
\* without such a file
ContentAt(tree, parts) == {f.blob : f \in {g \in tree : g.path = parts}}

\* C11: a call whose batch holds a path that is empty, absolute, or that
\* normalises to ".", ".." or below "../" returns ErrInvalidPath and leaves
\* the branch where it was; a path that normalises to a location inside the
\* root is accepted: when the call succeeds the file is at the normalised
\* location of the new tip.
C11_InvalidPathRejected ==
    [][\A w \in Writers : Returning(w) =>
          /\ HasInvalidPath(wr[w].updates) =>
                wr'[w].result.err = "ErrInvalidPath" /\ branch' = branch
          /\ wr'[w].result.err = "" =>
                \A i \in 1..Len(wr[w].updates) :
                    ContentAt(chartCommits[branch'].tree,
                              PathClean(wr[w].updates[i].path).segs) = {wr[w].updates[i].content}]_vars

\* parts is a proper prefix of path
Below(parts, path) == Len(parts) < Len(path) /\ SubSeq(path, 1, Len(parts)) = parts

\* parts names a directory of the tree, or passes through a regular file of it
Collides(tree, parts) ==
    \E f \in tree : Below(parts, f.path) \/ Below(f.path, parts)

\* the tree of a commit, of no commit the empty tree
TreeAt(hash) == IF hash = 0 THEN {} ELSE chartCommits[hash].tree

\* a well-formed path of the batch collides with the tip the call started
\* from or with an earlier file of the batch
HasCollision(tip, updates) ==
    \E i \in 1..Len(updates) :
        /\ cleanChartPath(updates[i].path).err = ""
        /\ Collides(tip \cup {f \in Written(SubSeq(updates, 1, i - 1)) : f.path # <<>>},
                    cleanChartPath(updates[i].path).parts)

\* C12 as stated: a call whose batch holds a path that names an existing
\* directory, or passes through an existing regular file, of the previous
\* tip or of an earlier file of the batch, returns ErrPathIsDirectory and
\* leaves the branch where it was.
C12_AnyBatchWithCollision ==
    [][\A w \in Writers :
          Returning(w) /\ HasCollision(TreeAt(wr[w].parentHash), wr[w].updates)
          => wr'[w].result.err = "ErrPathIsDirectory" /\ branch' = branch]_vars

\* C12, amended: the same of a batch whose paths are all well formed and
\* pairwise distinct after normalisation.
C12_CollisionRejected ==
    [][\A w \in Writers :
          /\ Returning(w)
          /\ ValidBatch(wr[w].updates)
          /\ HasCollision(TreeAt(wr[w].parentHash), wr[w].updates)
          => wr'[w].result.err = "ErrPathIsDirectory" /\ branch' = branch]_vars

\* on top of a tip that holds the directory d (the file d/b), a call was
\* rejected with ErrPathIsDirectory after it had written the file a
C12_Witness ==
    /\ wr["w1"].pc = "idle" /\ wr["w1"].result = [err |-> "ErrPathIsDirectory", hash |-> 0]
    /\ branch = 1
    /\ chartCommits = <<[tree |-> {File(<<"d", "b">>, "y")}, parents |-> <<>>,
                         message |-> "message"]>>
    /\ {File(<<"d", "b">>, "y"), File(<<"a">>, "x")} \in trees

\* ListChartTree(chartID, ref) of a commit: its hash and the sorted names of
\* the files of its tree
ListChartTreeAt(ref) == [hash |-> ref, files |-> sortStrings(FileNames(TreeAt(ref)))]

\* ReadChartFile(chartID, path, ref) of a commit: [err, hash, contents]
ReadChartFile(path, ref) ==
    Bind(ContentAt(TreeAt(ref), path), LAMBDA file :
        IF file = {} THEN [err |-> "ErrFileNotFound", hash |-> 0, contents |-> ""]
        ELSE [err |-> "", hash |-> ref, contents |-> CHOOSE contents \in file : TRUE])

\* what a read of path yields, whatever the commit read
Content(path, ref) == [ReadChartFile(path, ref) EXCEPT !.hash = 0]

\* the paths read back: those of the two listings and of the batches
ReadPaths(prev, new) ==
    FileNames(TreeAt(prev)) \cup FileNames(TreeAt(new))
        \cup {PathClean(u.path).segs : u \in PathUpdates}

\* the call of w returns the hash of the commit it moved the branch to
Succeeding(w) == Returning(w) /\ wr'[w].result.err = ""

\* C13: when a call succeeds, the listing of the new commit is the listing
\* of the previous tip united with the normalised written paths, every
\* written path reads back the written content, and every other path reads
\* back what it did at the previous tip.
C13_WriteFrame ==
    [][\A w \in Writers : Succeeding(w) =>
          LET prev == wr[w].parentHash
              new  == wr'[w].result.hash
              written == Written(wr[w].updates)
          IN  /\ new = branch' /\ new # prev
              /\ Range(ListChartTreeAt(new).files)
                    = Range(ListChartTreeAt(prev).files) \cup {f.path : f \in written}
              /\ \A f \in written :
                    ReadChartFile(f.path, new) = [err |-> "", hash |-> new, contents |-> f.blob]
              /\ \A path \in ReadPaths(prev, new) \ {f.path : f \in written} :
                    Content(path, new) = Content(path, prev)]_vars

\* a call has written d/c and, as d/../a, a new content of a on top of a
\* tip that held a and d/b: d/b is still there beside d/c
C13_Witness ==
    /\ wr["w1"].pc = "idle" /\ wr["w1"].result = [err |-> "", hash |-> 2]
    /\ branch = 2
    /\ chartCommits[1].tree = {File(<<"a">>, "x"), File(<<"d", "b">>, "y")}
    /\ chartCommits[2].parents = <<1>>
    /\ chartCommits[2].tree
          = {File(<<"a">>, "y"), File(<<"d", "b">>, "y"), File(<<"d", "c">>, "x")}

----------------------------------------------------------------------------
(* Claims about checkoutVersion (checked under Spec).                      *)

\* the step is a checkoutVersion call with that commitDraft option
Checkout(options) ==
    lastCall'.op = "checkoutVersion" /\ lastCall'.input.commitDraft \in options

\* the id of the call resolves to a commit
Resolvable(id) == readCommitMetadata(Repo, id) # <<>>

\* C14: checkoutVersion(id, {commitDraft: false}) with a resolvable id
\* succeeds, leaves HEAD and every commit as they were, makes the working
\* primary file that of commit id, and returns the nodes (position apart)
\* and edges getVersion(id) returns.
C14_CheckoutFrame ==
    [][Checkout({"false"}) /\ Resolvable(lastCall'.input.id) =>
          /\ lastCall'.ok
          /\ head' = head /\ commits' = commits
          /\ workTf' = commits[lastCall'.input.id].tf
          /\ getVersion(Repo, lastCall'.input.id) # <<>>
          /\ GraphContent(lastCall'.ret[1].graph)
                = GraphContent(getVersion(Repo, lastCall'.input.id)[1].graph)]_vars

\* checkoutVersion(id, {commitDraft: false}) has returned the graph of a
\* commit below HEAD, whose primary file is now the working one and is not
\* the one of HEAD
C14_Witness ==
    /\ Returned("checkoutVersion") /\ lastCall.input.commitDraft = "false"
    /\ lastCall.input.id \in 1..Len(commits) /\ lastCall.input.id # head
    /\ head = lastCall.headBefore
    /\ workTf = commits[lastCall.input.id].tf
    /\ workTf # commits[head].tf
    /\ Len(lastCall.ret[1].graph.nodes) = 2

\* the working files are not those of HEAD (without a HEAD: there are
\* working files)
WorkingDiffersFromHead == workTf # HeadTree(Repo).tf \/ workMeta # HeadTree(Repo).meta

\* C15: checkoutVersion(id) with commitDraft true or omitted, called while
\* the working files differ from HEAD, leaves at HEAD a draft commit, new or
\* amended, whose primary and metadata files are the working files of
\* before the call; the working files are overwritten after that, so their
\* content of before the call is in the commit at HEAD when the call returns.
C15_DraftBeforeCheckout ==
    [][Checkout({"true", "absent"}) /\ WorkingDiffersFromHead =>
          /\ head' \in 1..Len(commits')
          /\ head' \notin 1..Len(commits)
          /\ isDraftSubject(commits'[head'].subject)
          /\ commits'[head'].parent
                = (IF isDraftHead(Repo) THEN commits[head].parent ELSE head)
          /\ commits'[head'].tf = workTf /\ commits'[head'].meta = workMeta
          /\ SubSeq(commits', 1, Len(commits)) = commits]_vars

\* checkoutVersion(id) without option has returned the workspace of a
\* commit below HEAD: the working primary file is that commit's, and HEAD is
\* a draft made by the call, with another primary file
C15_Witness ==
    /\ Returned("checkoutVersion") /\ lastCall.input.commitDraft = "absent"
    /\ head # lastCall.headBefore /\ isDraftHead(Repo)
    /\ lastCall.input.id # head
    /\ workTf = commits[lastCall.input.id].tf
    /\ workTf # commits[head].tf

\* C16 as stated: checkoutVersion with an id that does not resolve fails
\* with version_not_found and leaves the two working files and HEAD as they
\* were, whatever the commitDraft option.
C16_NotFoundLeavesRepository ==
    [][Checkout({"true", "absent", "false"}) /\ ~Resolvable(lastCall'.input.id) =>
          /\ lastCall'.err = "version_not_found"
          /\ workTf' = workTf /\ workMeta' = workMeta
          /\ head' = head]_vars

\* the graph with every node at another position
Moved(graph) ==
    [graph EXCEPT !.nodes = [i \in 1..Len(graph.nodes) |->
        [graph.nodes[i] EXCEPT !.position = IF @ = P0 THEN P1 ELSE P0]]]

\* the updateWorkspace inputs that differ from input in positions and drift
\* entries at most
PositionAndDriftVariants(input) ==
    {[graph |-> g, layers |-> input.layers, drift |-> d] :
        g \in {input.graph, Moved(input.graph)},
        d \in IacDrifts \cup {<<[id |-> "n1", item |-> DriftItem("drifted", "t1")]>>}}

\* the updateDrift inputs
DriftInputs == {[nodeId |-> id, status |-> st] : id \in {"n1", "n2"}, st \in DriftStatuses}

----------------------------------------------------------------------------
(* Claims about the codec (checked under SpecCodec).                       *)

\* the arrays with the elements of s, in every order
Reorderings(s) == {t \in InjSeqs(Range(s), Len(s)) : Len(t) = Len(s)}

\* C17: the primary file encoded for a graph with unique node ids and unique
\* edge ids is the same document, member for member in the same order, for
\* every permutation of the nodes array and of the edges array.
C17_EncodeOrderInsensitive ==
    codecOut # <<>> =>
        \A ns \in Reorderings(codecIn[1].graph.nodes),
           es \in Reorderings(codecIn[1].graph.edges) :
            encode(Graph(ns, es), codecIn[1].layers) = codecOut[1].file

\* the fields of a node other than its position; the optional size is <<>>
\* when the node has none
NodeFields(node) ==
    [id |-> node.id, kind |-> node.kind, label |-> node.label, layerId |-> node.layerId,
     config |-> node.config,
     size |-> IF "size" \in DOMAIN node THEN <<node.size>> ELSE <<>>]

\* the file has been decoded with a metadata document without node entries
DecodedFresh == codecOut # <<>> /\ codecOut[1].decoded # <<>> /\ codecIn[1].metadata = <<>>

\* C18: decoding the file encoded for a graph with unique ids and a layer
\* list, with metadata that holds nothing yet, returns the layer list and a
\* graph with the same nodes, equal in every field but position, and the
\* same edges, equal in every field.
C18_RoundTrip ==
    DecodedFresh =>
        LET G == codecIn[1].graph
            D == codecOut[1].decoded[1]
        IN  /\ D.layers = codecIn[1].layers
            /\ Len(D.graph.nodes) = Len(G.nodes)
            /\ {NodeFields(n) : n \in Range(D.graph.nodes)}
                  = {NodeFields(n) : n \in Range(G.nodes)}
            /\ Len(D.graph.edges) = Len(G.edges)
            /\ Range(D.graph.edges) = Range(G.edges)

\* the codec has decoded the file
Decoded == codecOut # <<>> /\ codecOut[1].decoded # <<>>

\* the members of the metadata entry of id, none without an entry
MetadataItems(metadata, id) ==
    IF \E i \in 1..Len(metadata) : metadata[i].id = id
    THEN metadata[CHOOSE i \in 1..Len(metadata) : metadata[i].id = id].items
    ELSE <<>>

\* the metadata holds a position with numbers x and y for id
HasPosition(metadata, id) ==
    \E m \in Range(MetadataItems(metadata, id)) :
        m.k = "position" /\ DOMAIN m.pos = {"x", "y"}

\* the metadata holds a drift item with a status of the enumeration for id
HasDrift(metadata, id) ==
    \E m \in Range(MetadataItems(metadata, id)) :
        /\ m.k = "drift"
        /\ \E e \in Range(m.drift) :
              e.k = "status" /\ e.v \in {"unknown", "in_sync", "drifted"}

PositionOf(metadata, id) ==
    (CHOOSE m \in Range(MetadataItems(metadata, id)) : m.k = "position").pos

DriftOf(metadata, id) ==
    (CHOOSE m \in Range(MetadataItems(metadata, id)) : m.k = "drift").drift

\* C20: decoding returns one node, with a position, and one drift entry for
\* each node of the primary file and no other; a valid position of the
\* metadata is kept, otherwise the position is that of the node placed just
\* before plus (220, 120), or (120, 160) for the first node; a valid drift
\* item of the metadata is kept, otherwise it is {status: unknown}; the
\* repaired flag is true exactly when a position or a drift item was
\* synthesized, and decoding again with the returned metadata reports no
\* repair and returns the same graph and drift.
C20_DecodeRepairs ==
    Decoded =>
        LET defs == parsePlanemgrTf(codecOut[1].file).nodes
            M    == codecIn[1].metadata
            D    == codecOut[1].decoded[1]
            n    == Len(defs)
        IN  /\ Len(D.graph.nodes) = n /\ Len(D.drift) = n
            /\ \A i \in 1..n :
                  /\ D.graph.nodes[i].id = defs[i].id /\ D.drift[i].id = defs[i].id
                  /\ D.graph.nodes[i].position =
                        (IF HasPosition(M, defs[i].id) THEN PositionOf(M, defs[i].id)
                         ELSE IF i = 1 THEN [x |-> 120, y |-> 160]
                         ELSE [x |-> D.graph.nodes[i - 1].position.x + 220,
                               y |-> D.graph.nodes[i - 1].position.y + 120])
                  /\ D.drift[i].item =
                        (IF HasDrift(M, defs[i].id) THEN DriftOf(M, defs[i].id)
                         ELSE <<[k |-> "status", v |-> "unknown"]>>)
            /\ D.metadataUpdated
                  <=> \E i \in 1..n : ~HasPosition(M, defs[i].id) \/ ~HasDrift(M, defs[i].id)
            /\ codecOut[1].again # <<>> =>
                  /\ ~codecOut[1].again[1].metadataUpdated
                  /\ codecOut[1].again[1].graph = D.graph
                  /\ codecOut[1].again[1].drift = D.drift

\* a file with two nodes was decoded with metadata that held a position
\* without y for the first and a drift item of unknown status for the
\* second, and decoded again with the repaired metadata
C20_Witness ==
    /\ Decoded /\ codecOut[1].again # <<>>
    /\ Len(codecOut[1].decoded[1].graph.nodes) = 2
    /\ codecIn[1].metadata
         = MetadataVariant("n1", 4) \o MetadataVariant("n2", 5)
    /\ codecOut[1].decoded[1].metadataUpdated
    /\ codecOut[1].decoded[1].graph.nodes[1].position = DEFAULT_POSITION
    /\ codecOut[1].decoded[1].drift[2].item = DriftItem("unknown", "")

----------------------------------------------------------------------------
(* Claims about the workspace as it is found (checked under SpecLive).     *)

\* the primary file exists and is not a well-formed definition
CorruptLive == workTf # <<>> /\ ~IsDefinition(workTf[1])

\* the two files ensureWorkspaceFiles writes for the built-in graph and layers
SeededFiles ==
    [tf   |-> <<encode(DEFAULT_GRAPH, DEFAULT_LAYERS)>>,
     meta |-> <<[i \in 1..Len(DEFAULT_GRAPH.nodes) |->
                  [id |-> DEFAULT_GRAPH.nodes[i].id,
                   items |-> <<PositionMember(DEFAULT_GRAPH.nodes[i].position)>>]]>>]

\* C21 as stated: getWorkspace raises whenever the primary file exists and
\* is not a well-formed definition, and leaves that file as it is; a primary
\* file that exists is never overwritten; an absent one is seeded with the
\* built-in graph and layers, both files being written before the call
\* returns them.
C21_CorruptLiveRaises ==
    [][lastCall'.op = "getWorkspace" =>
          /\ CorruptLive => ~lastCall'.ok
          /\ workTf # <<>> => workTf' = workTf
          /\ workTf = <<>> =>
                /\ lastCall'.ok
                /\ workTf' = SeededFiles.tf
                /\ \A i \in 1..Len(SeededFiles.meta[1]) :
                      \E j \in 1..Len(workMeta'[1]) :
                          /\ workMeta'[1][j].id = SeededFiles.meta[1][i].id
                          /\ Member(workMeta'[1][j], "position")
                                = SeededFiles.meta[1][i].items[1]
                /\ GraphContent(lastCall'.ret[1].graph) = GraphContent(DEFAULT_GRAPH)
                /\ lastCall'.ret[1].layers = DEFAULT_LAYERS]_vars

\* the primary file of the commit is present and is JSON
Decodable(id) == commits[id].tf # <<>> /\ DOMAIN commits[id].tf[1] # {"text"}

----------------------------------------------------------------------------
(* Claims about interleaved writers (checked under SpecRace).              *)

\* the commits reachable from a commit: itself and its ancestors
RECURSIVE Reachable(_)
Reachable(hash) ==
    IF hash = 0 THEN {}
    ELSE {hash} \cup UNION {Reachable(chartCommits[hash].parents[i]) :
                               i \in 1..Len(chartCommits[hash].parents)}

\* the branch moves only to a commit whose parent it designates
SetRefIsCompareAndSwap ==
    branch' # branch => chartCommits'[branch'].parents = Tip

\* the commit the last successful call of each writer returned is reachable
\* from the branch
ReturnedCommitsReachable ==
    \A w \in RaceWriters :
        (wr[w].pc = "idle" /\ wr[w].result.err = "" /\ wr[w].result.hash # 0)
            => wr[w].result.hash \in Reachable(branch)

\* C23 as stated: the reference update that ends WriteChartFiles moves the
\* branch to the new commit only if the branch still designates that
\* commit's parent, so that under interleaved calls every commit hash a call
\* has returned stays reachable from the branch.
C23_NoLostWrite == [][SetRefIsCompareAndSwap]_vars /\ []ReturnedCommitsReachable

----------------------------------------------------------------------------
(* Claims about chart creation (checked under SpecCreate).                 *)

\* a chart directory that a finished create or an earlier run has made
Existing(id) == repos[id] # <<>> /\ repos[id][1].head = "main"

\* a collision in os.Stat is retried and leaves every directory as it was
CollisionRetried ==
    \A c \in Creators :
        cr[c].pc = "attempt" /\ cr'[c].attempts = cr[c].attempts + 1 => repos' = repos

\* the call fails after five collisions, and only then, touching no directory
FailsAfterFive ==
    \A c \in Creators :
        cr[c].pc = "attempt" /\ cr'[c].pc = "idle"
            => /\ cr[c].attempts = MaxAttempts
               /\ cr'[c].result = [err |-> "unable to allocate chart id", id |-> ""]
               /\ repos' = repos

\* a chart directory that exists is not changed by a create
ExistingUntouched ==
    \A id \in ChartIds : Existing(id) => repos'[id] = repos[id]

\* the id a create returns is an empty repository whose HEAD is main
ReturnedIsEmptyRepo ==
    \A c \in Creators :
        cr[c].pc # "idle" /\ cr'[c].pc = "idle" /\ cr'[c].result.id # ""
            => repos'[cr'[c].result.id] = <<RepoDir("main", 0, 1)>>

\* no directory is initialised twice, no call makes more than five attempts,
\* and no two calls have returned the same id
NeverReinitialised == \A id \in ChartIds : repos[id] # <<>> => repos[id][1].inits <= 1
AtMostFiveAttempts == \A c \in Creators : cr[c].attempts <= MaxAttempts
DistinctIds ==
    \A c, d \in Creators :
        c # d /\ cr[c].result.id # "" => cr[d].result.id # cr[c].result.id

\* C24: chart creation makes at most five attempts, each with an id drawn
\* anew; an id whose directory exists is retried, never initialised again;
\* after five collisions the call fails and no existing repository is touched;
\* two concurrent calls never both return the same id; a returned id is an
\* empty repository, without commits, whose HEAD is symbolic to main.
C24_CreateCollisionSafe ==
    /\ [][CollisionRetried /\ FailsAfterFive /\ ExistingUntouched /\ ReturnedIsEmptyRepo]_vars
    /\ [](NeverReinitialised /\ AtMostFiveAttempts /\ DistinctIds)

----------------------------------------------------------------------------
(* Claims about ListChartTree (checked under SpecChart).                   *)

\* the commit of the last WriteChartFiles call that returned without error,
\* 0 when there is none: commits are numbered as they are stored, and the
\* last one is not yet written while its call is before SetReference
LatestWritten ==
    IF \E w \in Writers : wr[w].pc = "ref" THEN Len(chartCommits) - 1
    ELSE Len(chartCommits)

\* files is the list of all the files of the tree, each once, in order
SortedListOf(files, tree) ==
    /\ Range(files) = {f.path : f \in tree}
    /\ \A i, j \in 1..Len(files) : i < j => NameLess(files[i], files[j])

ListsLatestWritten ==
    seen' # seen =>
        /\ (seen'[1].hash = 0 /\ seen'[1].files = <<>>) <=> (LatestWritten = 0)
        /\ LatestWritten # 0 =>
            /\ seen'[1].hash = LatestWritten
            /\ SortedListOf(seen'[1].files, chartCommits[LatestWritten].tree)

\* C25: ListChartTree without a ref returns the empty hash and no files
\* exactly when no WriteChartFiles has succeeded; after a successful write it
\* returns the hash of the latest written commit and the sorted list of all
\* the files of that commit, those in directories included.
C25_ListTreeOfHead == [][ListsLatestWritten]_vars

\* a listing of the second commit, with a file in a directory
C25_Witness ==
    /\ seen # <<>>
    /\ seen[1].hash = 2
    /\ seen[1].files = << <<"a">>, <<"d", "b">> >>
    /\ chartCommits[1].tree = {File(<<"d", "b">>, "y")}

----------------------------------------------------------------------------
(* Claims about the order of a plan and the comparison of configs          *)
(* (checked under SpecPlan).                                               *)

\* the ids of a list of nodes, edges or operations, in the order of the list
IdsInOrder(xs) == [i \in 1..Len(xs) |-> xs[i].id]
TargetsInOrder(ops) == [i \in 1..Len(ops) |-> ops[i].targetId]

\* the operations on nodes (edges) are the creates and updates in the order
\* of the current array, then the deletes in the order of the base array
OrderedWithin(t, currentItems, baseItems) ==
    LET ops     == SelectSeq(PlanOps, LAMBDA op : op.target = t)
        kept    == SelectSeq(ops, LAMBDA op : op.action \in {"create", "update"})
        deleted == SelectSeq(ops, LAMBDA op : op.action = "delete")
    IN  /\ ops = kept \o deleted
        /\ TargetsInOrder(kept)
             = SelectSeq(IdsInOrder(currentItems),
                         LAMBDA id : id \in Range(TargetsInOrder(kept)))
        /\ TargetsInOrder(deleted)
             = SelectSeq(IdsInOrder(baseItems),
                         LAMBDA id : id \in Range(TargetsInOrder(deleted)))

\* C26: in the operations of createPlan every node operation precedes every
\* edge operation; among the nodes, and among the edges, creates and updates
\* come in the order of the current graph's array and deletes after them in
\* the order of the base graph's array; and the action, target, targetId and
\* changes of the operations are determined by the two graphs.
C26_OrderedDeterministic ==
    PlanDone =>
        /\ \A i, j \in 1..Len(PlanOps) :
              (i < j /\ PlanOps[i].target = "edge") => PlanOps[j].target = "edge"
        /\ OrderedWithin("node", planIn.current.nodes, PlanBase.nodes)
        /\ OrderedWithin("edge", planIn.current.edges, PlanBase.edges)
        /\ \A i \in 1..Len(PlanOps) : PlanOps[i].target \in {"node", "edge"}
        /\ PlanOps = createPlan(planIn.current, planIn.base, Undef).operations

\* C26 witness: the two nodes of current created, then the two edges of base
\* deleted in the order of base, e2 before e1
C26_Witness ==
    /\ PlanDone
    /\ TargetsInOrder(PlanOps) = <<"n1", "n2", "e2", "e1">>
    /\ [i \in 1..4 |-> PlanOps[i].action] = <<"create", "create", "delete", "delete">>

\* two JSON values are the same: objects with the same keys and the same
\* value under each key, arrays with the same elements at the same places,
\* anything else identical
RECURSIVE SameJson(_, _)
SameJson(l, r) ==
    IF l.t = "obj" /\ r.t = "obj"
    THEN /\ Range(Keys(l)) = Range(Keys(r))
         /\ \A k \in Range(Keys(l)) : SameJson(Get(l, k), Get(r, k))
    ELSE IF l.t = "arr" /\ r.t = "arr"
    THEN /\ Len(l.items) = Len(r.items)
         /\ \A i \in 1..Len(l.items) : SameJson(l.items[i].val, r.items[i].val)
    ELSE l = r

ConfigOf(nd) == OrElse(nd.config, EmptyObj)

ConfigChanged(id) ==
    \E i \in UpdatesOf("node", id) :
        \E k \in 1..Len(PlanOps[i].changes) : PlanOps[i].changes[k].field = "config"

\* equal in every field the diff compares but the config
SameButConfig(cur, bas) ==
    cur.kind = bas.kind /\ cur.label = bas.label /\ cur.layerId = bas.layerId

\* C27: the diff compares configs by a recursive equality in which the order
\* of the keys of an object does not count and the order of the elements of
\* an array does, an absent config being the empty object; two nodes whose
\* configs differ in key order only give no update operation.
C27_ConfigDeepEquality ==
    PlanDone =>
        /\ deepEqual(ConfigAB, ConfigBA)
        /\ ~deepEqual(ConfigAB, ConfigSwap)
        /\ ~deepEqual(ConfigAB, ConfigStr)
        /\ \A id \in Ids(planIn.current.nodes) \cap Ids(PlanBase.nodes) :
              LET cur == ById(planIn.current.nodes, id)
                  bas == ById(PlanBase.nodes, id)
              IN  /\ ConfigChanged(id) <=> ~SameJson(ConfigOf(cur), ConfigOf(bas))
                  /\ (SameButConfig(cur, bas) /\ SameJson(ConfigOf(cur), ConfigOf(bas)))
                        => UpdatesOf("node", id) = {}

\* C27 witness: n1 with config {a, b} was diffed against n1 with config
\* {b, a}, and there is no operation on n1
C27_Witness ==
    /\ PlanDone
    /\ "n1" \in Ids(planIn.current.nodes) \cap Ids(PlanBase.nodes)
    /\ ById(planIn.current.nodes, "n1").config = ConfigAB
    /\ ById(PlanBase.nodes, "n1").config = ConfigBA
    /\ \A i \in 1..Len(PlanOps) : PlanOps[i].targetId # "n1"

----------------------------------------------------------------------------
(* Claims about saving, reloading and planning (checked under Spec and     *)
(* SpecLive).                                                              *)

\* neither graph has an operation against the other
DiffsToNothing(reloaded, G) ==
    /\ createPlan(reloaded, <<G>>, Undef).operations = <<>>
    /\ createPlan(G, <<reloaded>>, Undef).operations = <<>>

ReloadDiffsToNothing ==
    /\ (lastCall'.op = "updateWorkspace" /\ lastCall'.ok)
          => DiffsToNothing(lastCall'.ret[1].graph, lastCall'.input.graph)
    /\ (Returned("updateWorkspace") /\ lastCall'.op = "getWorkspace" /\ lastCall'.ok)
          => DiffsToNothing(lastCall'.ret[1].graph, lastCall.input.graph)

\* C28: after updateWorkspace(G) the graph that getWorkspace returns, which
\* is also what updateWorkspace itself returns, has no plan operation against
\* G and G has none against it, although the reloaded graph has its nodes in
\* sorted order, no empty config, no empty edge label and other positions.
C28_ReloadFabricatesNothing == [][ReloadDiffsToNothing]_vars

\* C28 witness: the graph with nodes n2, n1, an empty config and an empty
\* edge label was saved, and the graph returned is not that graph
C28_Witness ==
    /\ Returned("updateWorkspace")
    /\ Len(lastCall.input.graph.nodes) = 2
    /\ lastCall.input.graph.edges[1].label = Str("")
    /\ lastCall.ret[1].graph # lastCall.input.graph
    /\ lastCall.ret[1].graph.nodes[1].id = "n1"

\* the commits of the history that listVersions lists, newest first
Listed == SelectSeq(Log, Decodable)

\* getVersion(id) finds the commit and decodes its primary file
Resolves(id) == id \in 1..Len(commits) /\ Decodable(id)

\* the plan creates every node and edge of the current graph, does nothing
\* else, and names no base version
AllCreates(plan, current) ==
    /\ plan.baseVersionId = <<>>
    /\ Len(plan.operations) = Len(current.nodes) + Len(current.edges)
    /\ \A i \in 1..Len(plan.operations) : plan.operations[i].action = "create"
    /\ {plan.operations[i].targetId : i \in 1..Len(plan.operations)}
          = Ids(current.nodes) \cup Ids(current.edges)

\* a plan without baseVersionId is computed against the first of newest,
\* after updateWorkspace it is empty, and a plan is all creates exactly when
\* there is nothing to compare with: an empty history whatever the request
\* names (whatever), or an empty history when the request names no version
PlanAgainst(newest, whatever) ==
    (lastCall'.op = "plan" /\ lastCall'.ok) =>
        LET plan    == lastCall'.ret[1]
            asked   == lastCall'.input.baseVersionId
            current == getWorkspace(Repo).ws.graph
        IN  /\ asked = <<>> =>
                /\ plan.baseVersionId = (IF newest = <<>> THEN <<>> ELSE <<newest[1]>>)
                /\ (newest # <<>> /\ Decodable(newest[1])) =>
                      plan.operations
                        = createPlan(current, <<PlanVersionOf(Repo, newest[1]).graph>>,
                                     Undef).operations
            /\ (Returned("updateWorkspace") /\ asked = <<>>) => plan.operations = <<>>
            /\ AllCreates(plan, current)
                  <=> \/ Listed = <<>> /\ (whatever \/ asked = <<>>)
                      \/ asked # <<>> /\ ~Resolves(asked[1])

----------------------------------------------------------------------------
(* Claims about the deploy handler (checked under SpecDeploy).             *)

\* the request is between tryAcquireDeployLock and its return
PastLock(r) == dq[r].pc \in {"token", "key", "run", "running"}

Holders(id) == {r \in Requests : PastLock(r) /\ dq[r].id = id}

\* at most one request per chart id is past the lock, and the locks are the
\* ids of the requests past it
OneHolder ==
    /\ \A id \in DeployIds : Cardinality(Holders(id)) <= 1
    /\ deployLocks = {id \in DeployIds : Holders(id) # {}}

\* a request with a chart id arrives
Arrives(r, id) == dq[r].pc = "idle" /\ dq'[r] # dq[r] /\ dq'[r].id = id

DeployLockSteps ==
    \A r \in Requests :
        /\ \A id \in DeployIds :
              Arrives(r, id) =>
                 IF Holders(id) # {}
                 THEN /\ dq'[r] = [pc |-> "idle", id |-> id, status |-> 409,
                                   error |-> "deploy_in_progress"]
                      /\ deployLocks' = deployLocks
                      /\ \A h \in Holders(id) : dq'[h] = dq[h]
                 ELSE /\ dq'[r] = [pc |-> "token", id |-> id, status |-> 0, error |-> ""]
                      /\ deployLocks' = deployLocks \cup {id}
        /\ (PastLock(r) /\ dq'[r].pc = "idle") =>
              /\ dq'[r].status \in {200, 400, 401, 404, 500}
              /\ deployLocks' = deployLocks \ {dq[r].id}
        /\ dq'[r].pc = "running" => PastLock(r)

\* C30: at any time at most one deploy request per chart id is past the
\* lock; a request that arrives while another holds the lock of its id is
\* answered 409 deploy_in_progress, starts no runner and leaves the lock
\* with its holder; the holder releases the lock on every return of the
\* handler, so that a later request for the id acquires it; and a request
\* acquires the lock of its id whatever other ids are locked.
C30_DeployMutualExclusion == []OneHolder /\ [][DeployLockSteps]_vars

\* C30 witness: r1 runs a deploy of u1, r2 was refused for u1, and r3 runs a
\* deploy of u2
C30_Witness ==
    /\ dq["r1"].pc = "running" /\ dq["r1"].id = "u1"
    /\ dq["r2"] = [pc |-> "idle", id |-> "u1", status |-> 409, error |-> "deploy_in_progress"]
    /\ dq["r3"].pc = "running" /\ dq["r3"].id = "u2"
    /\ deployLocks = {"u1", "u2"}

====
